---- MODULE Spec2Model ----
(***************************************************************************)
(* State-machine model of the sms-frontend administrative client: the API  *)
(* client and its interceptors, the auth context, the management screens,  *)
(* the business form (both variants) and the service-interval editors.     *)
(***************************************************************************)
EXTENDS Integers, Sequences, FiniteSets, TLC

VARIABLES
    localStorage,   \* browser storage: key -> value or NULL
    user,           \* AuthProvider state `user` (the role, or NULL)
    authPc,         \* position of AuthProvider.initAuth
    loginPc,        \* position of AuthProvider.login
    loginNavs,      \* number of assignments window.location.href = '/login'
    dashPc,         \* position of Dashboard.fetchData (Promise.all of three calls)
    logoutAt,       \* history: how many requests had been sent when logout last ran
    requests,       \* every HTTP request sent so far, with its response status
    alerts,         \* messages shown with window.alert, in order
    displayed,      \* management screens: the locally held list of each screen
    server,         \* the backend's collection behind each screen
    prompts,        \* window.confirm dialogs answered so far
    banner,         \* UserManagement: the inline error / success banner
    flags,          \* boolean component state: loading and saving flags
    form,           \* the mounted BusinessForm: variant, formData, errors, file
    ui,             \* BusinessManagement.showForm / editingBusiness, Dashboard.activeTab
    onSubmitCalls,  \* invocations of the form's onSubmit prop, in order
    retention,      \* the service-interval editors: intervals, newService, serviceIntervals
    views           \* the read-only views: feedback, conversation, analytics, health

sessionVars == <<localStorage, user, authPc, loginPc, loginNavs, dashPc, logoutAt>>
listVars == <<displayed, server, prompts, banner, retention, views>>
formVars == <<form, ui, onSubmitCalls>>
vars == <<localStorage, user, authPc, loginPc, loginNavs, dashPc, logoutAt, requests,
          alerts, displayed, server, prompts, banner, flags, form, ui, onSubmitCalls,
          retention, views>>

\* What the session and API-client actions leave alone.
apiFrame == <<alerts, listVars, flags, formVars>>

----------------------------------------------------------------------------
(* Bounds *)
MaxRequests == 3
MaxNameLen == 3
MaxPrompts == 2

(* Values *)
NULL == "null"

\* logout has not been called yet
NoLogout == -1
Tokens == {"t1", "t2"}
Roles == {"admin", "user"}
StorageKeys == {"access_token", "user", "token"}
Statuses == {"200", "401", "500", "neterr"}
NoPayload == [kind |-> "none"]
NoAuth == <<>>

----------------------------------------------------------------------------
(* Text and number inputs.  A text is a tuple of one-character strings;  *)
(* a number is an integer count of hundredths, or NaN.                    *)

Scale == 100
NaN == -999999
Num(n) == n * Scale
Half == 50

Digits == {"0", "1", "2", "3", "4", "5", "6", "7", "8", "9"}
LowerLetters == {"a", "b", "c", "m", "n", "o", "s", "y", "l"}
UpperLetters == {"A", "M", "S"}
Whitespace == {" "}

DigitValue(c) ==
    CASE c = "0" -> 0 [] c = "1" -> 1 [] c = "2" -> 2 [] c = "3" -> 3 [] c = "4" -> 4
      [] c = "5" -> 5 [] c = "6" -> 6 [] c = "7" -> 7 [] c = "8" -> 8 [] c = "9" -> 9

\* String.prototype.toLowerCase on one character
ToLowerChar(c) ==
    CASE c = "A" -> "a" [] c = "M" -> "m" [] c = "S" -> "s" [] OTHER -> c

ToLowerCase(s) == [i \in 1..Len(s) |-> ToLowerChar(s[i])]

\* String.prototype.trim
RECURSIVE TrimStart(_)
TrimStart(s) ==
    IF s # <<>> /\ Head(s) \in Whitespace THEN TrimStart(Tail(s)) ELSE s

RECURSIVE TrimEnd(_)
TrimEnd(s) ==
    IF s # <<>> /\ s[Len(s)] \in Whitespace THEN TrimEnd(SubSeq(s, 1, Len(s) - 1)) ELSE s

Trim(s) == TrimEnd(TrimStart(s))

\* Length of the run of decimal digits of s that starts at index i
RECURSIVE DigitRun(_, _)
DigitRun(s, i) ==
    IF i <= Len(s) /\ s[i] \in Digits THEN 1 + DigitRun(s, i + 1) ELSE 0

\* Value of the decimal digits s[i .. i + n - 1]
RECURSIVE DigitsValue(_, _, _)
DigitsValue(s, i, n) ==
    IF n = 0 THEN 0 ELSE DigitsValue(s, i, n - 1) * 10 + DigitValue(s[i + n - 1])

\* Sign prefix shared by parseFloat and parseInt: [sign, index of the first digit]
SignAndStart(s) ==
    IF s # <<>> /\ s[1] = "-" THEN [sign |-> -1, start |-> 2]
    ELSE IF s # <<>> /\ s[1] = "+" THEN [sign |-> 1, start |-> 2]
    ELSE [sign |-> 1, start |-> 1]

\* parseFloat: leading whitespace is skipped, an optional sign, digits, an
\* optional fraction; anything after that is ignored; NaN when no digit was
\* read.  Two fractional digits are kept.
ParseFloat(text) ==
    LET s == TrimStart(text)
        p == SignAndStart(s)
        n == DigitRun(s, p.start)
        dot == p.start + n
        hasDot == dot <= Len(s) /\ s[dot] = "."
        m == IF hasDot THEN DigitRun(s, dot + 1) ELSE 0
        whole == DigitsValue(s, p.start, n)
        frac == IF m = 0 THEN 0
                ELSE IF m = 1 THEN DigitValue(s[dot + 1]) * 10
                ELSE DigitValue(s[dot + 1]) * 10 + DigitValue(s[dot + 2])
    IN  IF n = 0 /\ m = 0 THEN NaN ELSE p.sign * (whole * Scale + frac)

\* parseInt (radix 10): as parseFloat without the fraction
ParseInt(text) ==
    LET s == TrimStart(text)
        p == SignAndStart(s)
        n == DigitRun(s, p.start)
    IN  IF n = 0 THEN NaN ELSE p.sign * DigitsValue(s, p.start, n) * Scale

IsNaN(x) == x = NaN

\* x || 0 for a number: NaN and 0 are falsy
OrZero(x) == IF IsNaN(x) \/ x = 0 THEN 0 ELSE x

\* x < y and x > y of JavaScript: false when an operand is NaN
JsLess(x, y) == ~IsNaN(x) /\ ~IsNaN(y) /\ x < y
JsGreater(x, y) == ~IsNaN(x) /\ ~IsNaN(y) /\ x > y

----------------------------------------------------------------------------
(* The API client (services/api.ts) and the raw fetch call sites *)

\* Template literal `Bearer ${token}`: a null token is rendered as "null".
Bearer(token) == <<"Bearer", token>>

\* Request interceptor: the header is set only when a token is stored.
RequestInterceptor(ls) ==
    IF ls["access_token"] # NULL THEN Bearer(ls["access_token"]) ELSE NoAuth

NewRequest(caller, client, method, path, auth, payload) ==
    [caller |-> caller, client |-> client, method |-> method, path |-> path,
     auth |-> auth, payload |-> payload, status |-> "pending"]

\* A call through the axios instance of ApiService.
AxiosRequest(caller, method, path, payload, ls) ==
    NewRequest(caller, "axios", method, path, RequestInterceptor(ls), payload)

RemoveCredentials(ls) == [ls EXCEPT !["access_token"] = NULL, !["user"] = NULL]

\* Response interceptor: on a 401 of an axios call the credentials are
\* removed and location.href is assigned once.
ResponseInterceptorStorage(r, st, ls) ==
    IF r.client = "axios" /\ st = "401" THEN RemoveCredentials(ls) ELSE ls

ResponseInterceptorNavs(r, st) ==
    IF r.client = "axios" /\ st = "401" THEN 1 ELSE 0

Pending(i, caller) ==
    /\ i \in 1..Len(requests)
    /\ requests[i].status = "pending"
    /\ requests[i].caller = caller

Settle(i, st) == [requests EXCEPT ![i].status = st]

HasRoom(n) == Len(requests) + n <= MaxRequests

Screens == {"businesses", "users", "intervals"}
FlagNames == {"BusinessManagement.loading", "ServiceRetentionIntervals.loading",
              "ServiceRetentionIntervals.saving"}
Ids == {"r1", "r2"}

\* No BusinessForm is mounted.
Variants == {"main", "legacy"}

\* No BusinessForm is mounted.  variant is the BusinessForm module the
\* parents' import resolves to; edits counts the change events so far.
ClosedForm(variant, edits) == [open |-> FALSE, variant |-> variant, edits |-> edits]

ServiceNames == {<<"K", "l", "i", "p", "p">>}

\* A view's data before any response: [], null
NoData == [of |-> NULL]

\* useState initialisers of the service-interval editors
RetentionIdle ==
    retention = [intervals |-> [n \in ServiceNames |-> Num(2)],
                 stored |-> [n \in ServiceNames |-> Num(2)],
                 newService |-> [name |-> <<>>, category |-> "mens_hair", interval |-> 150],
                 serviceIntervals |-> [n \in ServiceNames |-> 150],
                 message |-> NULL]

\* CustomerFeedbackDashboard: the feedback list before the first response
\* ([]), no selected item (null), and the items the backend holds
NoItems == [id \in {} |-> [status |-> "new", notes |-> <<>>]]
NoFeedback == [id |-> NULL, status |-> NULL]
FeedbackIds == {"f1", "f2"}
FeedbackType == [id \in FeedbackIds |-> IF id = "f1" THEN "negative" ELSE "positive"]
FeedbackOnServer ==
    [id \in FeedbackIds |-> [status |-> IF id = "f1" THEN "new" ELSE "reviewed",
                             notes |-> <<>>]]

\* useState initialisers of the views, none of them mounted yet
\* (health.interval: the delay of the running timer in ms, 0 when none)
ViewsIdle ==
    views = [feedback |-> [mounted |-> FALSE, filter |-> "all", data |-> NoData,
                           loading |-> TRUE, items |-> NoItems,
                           stored |-> FeedbackOnServer, selectedFeedback |-> NoFeedback,
                           showDetailModal |-> FALSE, notes |-> <<>>, updating |-> FALSE],
             conversation |-> [selectedCustomer |-> NULL, data |-> NoData],
             analytics |-> [mounted |-> FALSE, businesses |-> <<>>,
                            selectedBusinessId |-> NULL, timeRange |-> "12",
                            data |-> NoData, loading |-> TRUE],
             health |-> [mounted |-> FALSE, interval |-> 0, ticks |-> 0,
                         data |-> NoData, error |-> NULL, loading |-> TRUE],
             sms |-> [mounted |-> FALSE, customers |-> <<>>, selectedCustomers |-> <<>>,
                      message |-> <<>>, searchTerm |-> <<>>, loading |-> FALSE,
                      sendResult |-> NULL]]

FormIdle(variant) ==
    /\ form = ClosedForm(variant, 0)
    /\ ui = [showForm |-> FALSE, editingBusiness |-> NULL, activeTab |-> "overview"]
    /\ onSubmitCalls = <<>>

\* The parts of the application that a specification does not exercise.
IdleFrame ==
    /\ alerts = <<>>
    /\ displayed = [s \in Screens |-> {}]
    /\ server = [s \in Screens |-> {}]
    /\ prompts = <<>>
    /\ banner = [error |-> NULL, success |-> NULL]
    /\ flags = [f \in FlagNames |-> FALSE]
    /\ FormIdle("main")
    /\ RetentionIdle
    /\ ViewsIdle

----------------------------------------------------------------------------
(* AuthProvider (contexts/AuthContext.tsx) *)

InitAuth ==
    /\ authPc = "start"
    /\ IF localStorage["access_token"] # NULL
       THEN /\ HasRoom(1)
            /\ requests' = Append(requests,
                   AxiosRequest("initAuth", "GET", "/api/auth/me", NoPayload, localStorage))
            /\ authPc' = "awaitMe"
       ELSE /\ authPc' = "ready"
            /\ UNCHANGED requests
    /\ UNCHANGED <<localStorage, user, loginPc, loginNavs, dashPc, apiFrame, logoutAt>>

\* initAuth whose catch block leaves the stored keys in place
InitAuthResponse_KeepsKeys(i, st, role) ==
    /\ Pending(i, "initAuth")
    /\ requests' = Settle(i, st)
    /\ loginNavs' = loginNavs + ResponseInterceptorNavs(requests[i], st)
    /\ LET ls == ResponseInterceptorStorage(requests[i], st, localStorage)
       IN  IF st = "200"
           THEN /\ user' = role
                /\ localStorage' = [ls EXCEPT !["user"] = role]
           ELSE /\ user' = user
                /\ localStorage' = ls
    /\ authPc' = "ready"
    /\ UNCHANGED <<loginPc, dashPc, apiFrame, logoutAt>>

\* initAuth after await getCurrentUser, then setLoading(false)
InitAuthResponse(i, st, role) ==
    /\ Pending(i, "initAuth")
    /\ requests' = Settle(i, st)
    /\ loginNavs' = loginNavs + ResponseInterceptorNavs(requests[i], st)
    /\ LET ls == ResponseInterceptorStorage(requests[i], st, localStorage)
       IN  IF st = "200"
           THEN /\ user' = role
                /\ localStorage' = [ls EXCEPT !["user"] = role]
           ELSE /\ user' = user
                /\ localStorage' = RemoveCredentials(ls)
    /\ authPc' = "ready"
    /\ UNCHANGED <<loginPc, dashPc, apiFrame, logoutAt>>

\* The mount effect has run (it runs before any consumer can call the
\* context) and the promise of the last login or register call is settled
LoginSettled ==
    /\ authPc # "start"
    /\ loginPc \in {"idle", "resolved", "rejected"}

Login ==
    /\ LoginSettled
    /\ HasRoom(2)
    /\ requests' = Append(requests,
           AxiosRequest("login", "POST", "/api/auth/login", NoPayload, localStorage))
    /\ loginPc' = "awaitLogin"
    /\ UNCHANGED <<localStorage, user, authPc, loginNavs, dashPc, logoutAt, apiFrame>>

\* login after await apiService.login: the token is stored, then the user is
\* requested; the catch block removes both keys and rethrows
LoginResponse(i, st, token) ==
    /\ Pending(i, "login")
    /\ loginNavs' = loginNavs + ResponseInterceptorNavs(requests[i], st)
    /\ LET ls == ResponseInterceptorStorage(requests[i], st, localStorage)
       IN  IF st = "200"
           THEN LET stored == [ls EXCEPT !["access_token"] = token]
                IN  /\ localStorage' = stored
                    /\ requests' = Append(Settle(i, st),
                           AxiosRequest("login.me", "GET", "/api/auth/me", NoPayload,
                                        stored))
                    /\ loginPc' = "awaitMe"
           ELSE /\ localStorage' = RemoveCredentials(ls)
                /\ requests' = Settle(i, st)
                /\ loginPc' = "rejected"
    /\ UNCHANGED <<user, authPc, dashPc, logoutAt, apiFrame>>

\* login whose catch block does not rethrow
LoginMeResponse_SwallowsError(i, st, role) ==
    /\ Pending(i, "login.me")
    /\ requests' = Settle(i, st)
    /\ loginNavs' = loginNavs + ResponseInterceptorNavs(requests[i], st)
    /\ LET ls == ResponseInterceptorStorage(requests[i], st, localStorage)
       IN  IF st = "200"
           THEN /\ user' = role
                /\ localStorage' = [ls EXCEPT !["user"] = role]
           ELSE /\ user' = user
                /\ localStorage' = RemoveCredentials(ls)
    /\ loginPc' = "resolved"
    /\ UNCHANGED <<authPc, dashPc, logoutAt, apiFrame>>

\* login after await apiService.getCurrentUser
LoginMeResponse(i, st, role) ==
    /\ Pending(i, "login.me")
    /\ requests' = Settle(i, st)
    /\ loginNavs' = loginNavs + ResponseInterceptorNavs(requests[i], st)
    /\ LET ls == ResponseInterceptorStorage(requests[i], st, localStorage)
       IN  IF st = "200"
           THEN /\ user' = role
                /\ localStorage' = [ls EXCEPT !["user"] = role]
                /\ loginPc' = "resolved"
           ELSE /\ user' = user
                /\ localStorage' = RemoveCredentials(ls)
                /\ loginPc' = "rejected"
    /\ UNCHANGED <<authPc, dashPc, logoutAt, apiFrame>>

\* register: the account is created, then login is called with the same
\* credentials
Register ==
    /\ LoginSettled
    /\ HasRoom(3)
    /\ requests' = Append(requests,
           AxiosRequest("register", "POST", "/api/auth/register", NoPayload, localStorage))
    /\ loginPc' = "awaitRegister"
    /\ UNCHANGED <<localStorage, user, authPc, loginNavs, dashPc, logoutAt, apiFrame>>

\* register after await apiService.register: its catch block only rethrows
RegisterResponse(i, st) ==
    /\ Pending(i, "register")
    /\ loginNavs' = loginNavs + ResponseInterceptorNavs(requests[i], st)
    /\ localStorage' = ResponseInterceptorStorage(requests[i], st, localStorage)
    /\ IF st = "200"
       THEN /\ requests' = Append(Settle(i, st),
                   AxiosRequest("login", "POST", "/api/auth/login", NoPayload,
                                localStorage'))
            /\ loginPc' = "awaitLogin"
       ELSE /\ requests' = Settle(i, st)
            /\ loginPc' = "rejected"
    /\ UNCHANGED <<user, authPc, dashPc, logoutAt, apiFrame>>

\* logout can be called by any consumer of the context at any time
Logout ==
    /\ authPc # "start"
    /\ \/ localStorage["access_token"] # NULL
       \/ localStorage["user"] # NULL
       \/ user # NULL
       \/ \E i \in 1..Len(requests) :
             /\ requests[i].status = "pending"
             /\ requests[i].caller \in {"initAuth", "register", "login", "login.me"}
    /\ localStorage' = RemoveCredentials(localStorage)
    /\ user' = NULL
    /\ logoutAt' = Len(requests)
    /\ UNCHANGED <<authPc, loginPc, loginNavs, dashPc, requests, apiFrame>>

----------------------------------------------------------------------------
(* Dashboard.fetchData (pages/Dashboard.tsx) *)

DashboardPaths ==
    <<"/api/dashboard/overview", "/api/dashboard/customers/recent",
      "/api/dashboard/sms/scheduled">>

DashboardFetchData ==
    /\ dashPc = "idle"
    /\ IF localStorage["access_token"] = NULL
       THEN /\ loginNavs' = loginNavs + 1
            /\ dashPc' = "done"
            /\ UNCHANGED requests
       ELSE IF user = "admin"
       THEN /\ dashPc' = "done"
            /\ UNCHANGED <<loginNavs, requests, logoutAt>>
       ELSE /\ HasRoom(3)
            /\ requests' = requests \o
                   [k \in 1..3 |-> AxiosRequest("Dashboard.fetchData", "GET",
                                        DashboardPaths[k], NoPayload, localStorage)]
            /\ dashPc' = "waiting"
            /\ UNCHANGED loginNavs
    /\ UNCHANGED <<localStorage, user, authPc, loginPc, apiFrame, logoutAt>>

\* Promise.all rejects with the first rejection and resolves when all three
\* calls have resolved; the catch block assigns location.href again on a 401.
DashboardResponse(i, st) ==
    /\ Pending(i, "Dashboard.fetchData")
    /\ requests' = Settle(i, st)
    /\ localStorage' = ResponseInterceptorStorage(requests[i], st, localStorage)
    /\ LET intercepted == ResponseInterceptorNavs(requests[i], st)
           allDone == \A j \in 1..Len(requests) :
                         requests'[j].caller = "Dashboard.fetchData"
                             => requests'[j].status = "200"
       IN  IF dashPc = "waiting" /\ st # "200"
           THEN /\ loginNavs' = loginNavs + intercepted + (IF st = "401" THEN 1 ELSE 0)
                /\ dashPc' = "done"
           ELSE /\ loginNavs' = loginNavs + intercepted
                /\ dashPc' = IF dashPc = "waiting" /\ allDone THEN "done" ELSE dashPc
    /\ UNCHANGED <<user, authPc, loginPc, apiFrame, logoutAt>>

----------------------------------------------------------------------------
(* Call sites that bypass ApiService and call fetch() directly *)

\* SMSConversationViewer.fetchCustomers
FetchCustomers ==
    /\ HasRoom(1)
    /\ requests' = Append(requests,
           NewRequest("fetchCustomers", "fetch", "GET", "/sms/conversations",
                      Bearer(localStorage["access_token"]), NoPayload))
    /\ UNCHANGED <<sessionVars, apiFrame>>

\* BusinessSettings.handleSave: the token is read from the key 'token'
BusinessSettingsHandleSave ==
    /\ HasRoom(1)
    /\ requests' = Append(requests,
           NewRequest("BusinessSettings.handleSave", "fetch", "PUT", "/api/businesses/:id",
                      Bearer(localStorage["token"]), NoPayload))
    /\ UNCHANGED <<sessionVars, apiFrame>>

\* WebhookManager.testWebhook: Content-Type (and Webhook-Secret) only
TestWebhook ==
    /\ HasRoom(1)
    /\ requests' = Append(requests,
           NewRequest("testWebhook", "fetch", "POST", "/api/webhooks/webhook/bokadirekt",
                      NoAuth, NoPayload))
    /\ UNCHANGED <<sessionVars, apiFrame>>

FetchCallers == {"fetchCustomers", "BusinessSettings.handleSave", "testWebhook"}

\* None of the three handlers touches storage or location on any outcome.
FetchResponse(i, st) ==
    /\ \E c \in FetchCallers : Pending(i, c)
    /\ requests' = Settle(i, st)
    /\ localStorage' = ResponseInterceptorStorage(requests[i], st, localStorage)
    /\ loginNavs' = loginNavs + ResponseInterceptorNavs(requests[i], st)
    /\ UNCHANGED <<user, authPc, loginPc, dashPc, apiFrame, logoutAt>>

----------------------------------------------------------------------------
----------------------------------------------------------------------------
(* The API client and its call sites, in a session that is logged in or not *)

InitApi ==
    /\ \E t \in Tokens \cup {NULL}, u \in Roles \cup {NULL} :
          /\ (t = NULL) <=> (u = NULL)
          /\ localStorage = [k \in StorageKeys |->
                                IF k = "access_token" THEN t
                                ELSE IF k = "user" THEN u ELSE NULL]
          /\ user = u
    /\ authPc = "ready"
    /\ loginPc = "idle"
    /\ loginNavs = 0
    /\ logoutAt = NoLogout
    /\ dashPc = "idle"
    /\ requests = <<>>
    /\ IdleFrame

NextApi ==
    \/ Logout
    \/ DashboardFetchData
    \/ \E i \in 1..MaxRequests + 1, st \in Statuses : DashboardResponse(i, st)
    \/ FetchCustomers
    \/ BusinessSettingsHandleSave
    \/ TestWebhook
    \/ \E i \in 1..MaxRequests + 1, st \in Statuses : FetchResponse(i, st)

SpecApi == InitApi /\ [][NextApi]_vars

----------------------------------------------------------------------------
(* The auth context on its own: start-up, login, logout *)

InitAuthCtx ==
    /\ \E t \in Tokens \cup {NULL}, u \in Roles \cup {NULL} :
          localStorage = [k \in StorageKeys |->
                            IF k = "access_token" THEN t
                            ELSE IF k = "user" THEN u ELSE NULL]
    /\ user = NULL
    /\ authPc = "start"
    /\ loginPc = "idle"
    /\ loginNavs = 0
    /\ logoutAt = NoLogout
    /\ dashPc = "idle"
    /\ requests = <<>>
    /\ IdleFrame

NextAuthCtx ==
    \/ InitAuth
    \/ \E i \in 1..MaxRequests + 1, st \in Statuses, role \in Roles : InitAuthResponse(i, st, role)
    \/ Login
    \/ \E i \in 1..MaxRequests + 1, st \in Statuses, token \in Tokens : LoginResponse(i, st, token)
    \/ \E i \in 1..MaxRequests + 1, st \in Statuses, role \in Roles : LoginMeResponse(i, st, role)
    \/ Register
    \/ \E i \in 1..MaxRequests + 1, st \in Statuses : RegisterResponse(i, st)
    \/ Logout

SpecAuthCtx == InitAuthCtx /\ [][NextAuthCtx]_vars

\* The mount effect is run by React once the provider is rendered, and the
\* axios instance gives every request a 10 s timeout, so the awaited call
\* settles
SpecStartUp ==
    /\ SpecAuthCtx
    /\ WF_vars(InitAuth)
    /\ WF_vars(\E i \in 1..MaxRequests + 1, st \in Statuses, role \in Roles :
                   InitAuthResponse(i, st, role))

----------------------------------------------------------------------------
(* Management screens: BusinessManagement, UserManagement and             *)
(* ServiceRetentionIntervals, their delete handlers and list fetches      *)

SetFlag(name, value) == [flags EXCEPT ![name] = value]

\* window.alert(text)
Alert(text) == [text |-> text]

Confirmed(screen, id, answer) ==
    Append(prompts, [screen |-> screen, id |-> id, confirmed |-> answer])

\* The delete handler without its early return on a declined prompt.
HandleDeleteBusiness_NoConfirm(id, answer) ==
    /\ id \in displayed["businesses"]
    /\ Len(prompts) < MaxPrompts
    /\ prompts' = Confirmed("businesses", id, answer)
    /\ HasRoom(2)
    /\ requests' = Append(requests,
           AxiosRequest("handleDeleteBusiness", "DELETE", "/api/businesses/:id",
                        [id |-> id], localStorage))
    /\ UNCHANGED <<sessionVars, alerts, displayed, server, banner, flags, formVars,
                   retention, views>>

\* BusinessManagement.handleDeleteBusiness
HandleDeleteBusiness(id, answer) ==
    /\ id \in displayed["businesses"]
    /\ Len(prompts) < MaxPrompts
    /\ prompts' = Confirmed("businesses", id, answer)
    /\ IF ~answer
       THEN UNCHANGED requests
       ELSE /\ HasRoom(2)
            /\ requests' = Append(requests,
                   AxiosRequest("handleDeleteBusiness", "DELETE", "/api/businesses/:id",
                                [id |-> id], localStorage))
    /\ UNCHANGED <<sessionVars, alerts, displayed, server, banner, flags, formVars,
                   retention, views>>

\* await deleteBusiness; then fetchBusinesses() with setLoading(true)
DeleteBusinessResponse(i, st) ==
    /\ Pending(i, "handleDeleteBusiness")
    /\ localStorage' = ResponseInterceptorStorage(requests[i], st, localStorage)
    /\ loginNavs' = loginNavs + ResponseInterceptorNavs(requests[i], st)
    /\ IF st = "200"
       THEN /\ server' = [server EXCEPT !["businesses"] = @ \ {requests[i].payload.id}]
            /\ requests' = Append(Settle(i, st),
                   AxiosRequest("fetchBusinesses", "GET", "/api/businesses/", NoPayload,
                                localStorage))
            /\ flags' = SetFlag("BusinessManagement.loading", TRUE)
            /\ UNCHANGED alerts
       ELSE /\ requests' = Settle(i, st)
            /\ alerts' = Append(alerts, Alert("Failed to delete business. Please try again."))
            /\ UNCHANGED <<server, flags, views>>
    /\ UNCHANGED <<user, authPc, loginPc, dashPc, displayed, prompts, banner, formVars,
                   retention, views, logoutAt>>

\* BusinessManagement.fetchBusinesses: a failure is logged and the list kept
FetchBusinessesResponse(i, st) ==
    /\ Pending(i, "fetchBusinesses")
    /\ requests' = Settle(i, st)
    /\ localStorage' = ResponseInterceptorStorage(requests[i], st, localStorage)
    /\ loginNavs' = loginNavs + ResponseInterceptorNavs(requests[i], st)
    /\ displayed' = IF st = "200"
                    THEN [displayed EXCEPT !["businesses"] = server["businesses"]]
                    ELSE displayed
    /\ flags' = SetFlag("BusinessManagement.loading", FALSE)
    /\ UNCHANGED <<user, authPc, loginPc, dashPc, alerts, server, prompts, banner,
                   formVars, retention, views, logoutAt>>

\* UserManagement.handleDeleteUser
HandleDeleteUser(id, answer) ==
    /\ id \in displayed["users"]
    /\ Len(prompts) < MaxPrompts
    /\ prompts' = Confirmed("users", id, answer)
    /\ IF ~answer
       THEN UNCHANGED requests
       ELSE /\ HasRoom(2)
            /\ requests' = Append(requests,
                   AxiosRequest("handleDeleteUser", "DELETE", "/api/admin/users/:id",
                                [id |-> id], localStorage))
    /\ UNCHANGED <<sessionVars, alerts, displayed, server, banner, flags, formVars,
                   retention, views>>

\* await deleteUser; setSuccess; loadUsers() -- or setError in the catch
DeleteUserResponse(i, st) ==
    /\ Pending(i, "handleDeleteUser")
    /\ localStorage' = ResponseInterceptorStorage(requests[i], st, localStorage)
    /\ loginNavs' = loginNavs + ResponseInterceptorNavs(requests[i], st)
    /\ IF st = "200"
       THEN /\ server' = [server EXCEPT !["users"] = @ \ {requests[i].payload.id}]
            /\ requests' = Append(Settle(i, st),
                   AxiosRequest("loadUsers", "GET", "/api/admin/users", NoPayload,
                                localStorage))
            /\ banner' = [banner EXCEPT !.success = "User deleted successfully!"]
       ELSE /\ requests' = Settle(i, st)
            /\ banner' = [banner EXCEPT !.error = "Failed to delete user"]
            /\ UNCHANGED server
    /\ UNCHANGED <<user, authPc, loginPc, dashPc, alerts, displayed, prompts, flags,
                   formVars, retention, views, logoutAt>>

\* UserManagement.loadUsers: a failure empties the list
LoadUsersResponse(i, st) ==
    /\ Pending(i, "loadUsers")
    /\ requests' = Settle(i, st)
    /\ localStorage' = ResponseInterceptorStorage(requests[i], st, localStorage)
    /\ loginNavs' = loginNavs + ResponseInterceptorNavs(requests[i], st)
    /\ displayed' = [displayed EXCEPT !["users"] =
                        IF st = "200" THEN server["users"] ELSE {}]
    /\ UNCHANGED <<user, authPc, loginPc, dashPc, alerts, server, prompts, banner, flags,
                   formVars, retention, views, logoutAt>>

\* ServiceRetentionIntervals.handleDeleteService
HandleDeleteService(id, answer) ==
    /\ id \in displayed["intervals"]
    /\ Len(prompts) < MaxPrompts
    /\ prompts' = Confirmed("intervals", id, answer)
    /\ IF ~answer
       THEN UNCHANGED <<requests, flags>>
       ELSE /\ HasRoom(2)
            /\ flags' = SetFlag("ServiceRetentionIntervals.saving", TRUE)
            /\ requests' = Append(requests,
                   AxiosRequest("handleDeleteService", "DELETE",
                                "/businesses/service-intervals/:id", [id |-> id],
                                localStorage))
    /\ UNCHANGED <<sessionVars, alerts, displayed, server, banner, formVars, retention,
                   views>>

\* await deleteInterval; await loadIntervals() -- or alert in the catch
DeleteServiceResponse(i, st) ==
    /\ Pending(i, "handleDeleteService")
    /\ localStorage' = ResponseInterceptorStorage(requests[i], st, localStorage)
    /\ loginNavs' = loginNavs + ResponseInterceptorNavs(requests[i], st)
    /\ IF st = "200"
       THEN /\ server' = [server EXCEPT !["intervals"] = @ \ {requests[i].payload.id}]
            /\ requests' = Append(Settle(i, st),
                   AxiosRequest("loadIntervals", "GET", "/businesses/service-intervals",
                                NoPayload, localStorage))
            /\ flags' = SetFlag("ServiceRetentionIntervals.loading", TRUE)
            /\ UNCHANGED alerts
       ELSE /\ requests' = Settle(i, st)
            /\ alerts' = Append(alerts, Alert("Kunde inte ta bort tjanst. Forsok igen."))
            /\ flags' = SetFlag("ServiceRetentionIntervals.saving", FALSE)
            /\ UNCHANGED server
    /\ UNCHANGED <<user, authPc, loginPc, dashPc, displayed, prompts, banner, formVars,
                   retention, views, logoutAt>>

\* ServiceRetentionIntervals.loadIntervals: getIntervals turns a failure
\* into {} and the list is replaced by it; the awaiting handler then
\* reaches its finally block.
LoadIntervalsResponse(i, st) ==
    /\ Pending(i, "loadIntervals")
    /\ requests' = Settle(i, st)
    /\ localStorage' = ResponseInterceptorStorage(requests[i], st, localStorage)
    /\ loginNavs' = loginNavs + ResponseInterceptorNavs(requests[i], st)
    /\ displayed' = [displayed EXCEPT !["intervals"] =
                        IF st = "200" THEN server["intervals"] ELSE {}]
    /\ flags' = [flags EXCEPT !["ServiceRetentionIntervals.loading"] = FALSE,
                              !["ServiceRetentionIntervals.saving"] = FALSE]
    /\ UNCHANGED <<user, authPc, loginPc, dashPc, alerts, server, prompts, banner,
                   formVars, retention, views, logoutAt>>

LoggedIn(token, role) ==
    /\ localStorage = [k \in StorageKeys |->
                          IF k = "access_token" THEN token
                          ELSE IF k = "user" THEN role ELSE NULL]
    /\ user = role
    /\ authPc = "ready"
    /\ loginPc = "idle"
    /\ loginNavs = 0
    /\ logoutAt = NoLogout
    /\ dashPc = "idle"

\* The three screens with their lists loaded.
InitList ==
    /\ \E role \in Roles : LoggedIn("t1", role)
    /\ requests = <<>>
    /\ alerts = <<>>
    /\ server = [s \in Screens |-> Ids]
    /\ displayed = [s \in Screens |-> Ids]
    /\ prompts = <<>>
    /\ banner = [error |-> NULL, success |-> NULL]
    /\ flags = [f \in FlagNames |-> FALSE]
    /\ FormIdle("main")
    /\ RetentionIdle
    /\ ViewsIdle

NextList ==
    \/ \E id \in Ids, answer \in BOOLEAN : HandleDeleteBusiness(id, answer)
    \/ \E i \in 1..MaxRequests + 1, st \in Statuses : DeleteBusinessResponse(i, st)
    \/ \E i \in 1..MaxRequests + 1, st \in Statuses : FetchBusinessesResponse(i, st)
    \/ \E id \in Ids, answer \in BOOLEAN : HandleDeleteUser(id, answer)
    \/ \E i \in 1..MaxRequests + 1, st \in Statuses : DeleteUserResponse(i, st)
    \/ \E i \in 1..MaxRequests + 1, st \in Statuses : LoadUsersResponse(i, st)
    \/ \E id \in Ids, answer \in BOOLEAN : HandleDeleteService(id, answer)
    \/ \E i \in 1..MaxRequests + 1, st \in Statuses : DeleteServiceResponse(i, st)
    \/ \E i \in 1..MaxRequests + 1, st \in Statuses : LoadIntervalsResponse(i, st)

SpecList == InitList /\ [][NextList]_vars

----------------------------------------------------------------------------
(* BusinessForm: components/BusinessForm.tsx ("main") and the older       *)
(* variant with the retention_months fields and the price-list file       *)
(* input ("legacy").  Both are mounted by BusinessManagement and by the    *)
(* Dashboard's business-form tab through the same props.                   *)

MaxEdits == 1

UNDEFINED == "undefined"

NumberFields == {"inactive_customer_days", "retention_months_new",
                 "retention_months_returning", "retention_days_after_booking"}

\* The object {} of service_intervals
NoServices == [n \in {} |-> [interval_months |-> 0, template |-> "standard"]]

\* useState initialiser without initialData
DefaultFormData(variant) ==
    IF variant = "main"
    THEN [name |-> <<>>, slug |-> <<>>, contact_email |-> <<>>,
          tone_of_voice |-> "Proffsig", inactive_customer_days |-> Num(90),
          staff_members |-> <<>>, service_intervals |-> NoServices]
    ELSE [name |-> <<>>, slug |-> <<>>, contact_email |-> <<>>,
          twilio_phone_number |-> <<>>, inactive_customer_days |-> Num(90),
          retention_months_new |-> Num(3), retention_months_returning |-> Num(2),
          retention_days_after_booking |-> Num(35)]

FormFields(variant) == DOMAIN DefaultFormData(variant)

\* initialData?.field || default: an absent, empty or zero value is falsy;
\* an array or an object, empty or not, is truthy
OrDefault(field, value, default) ==
    IF field \in NumberFields
    THEN (IF IsNaN(value) \/ value = 0 THEN default ELSE value)
    ELSE IF field \in {"staff_members", "service_intervals"} THEN value
    ELSE IF field = "tone_of_voice" THEN (IF value = NULL THEN default ELSE value)
    ELSE (IF value = <<>> THEN default ELSE value)

\* The initialData prop when the parent passes undefined
NoInitialData == [id |-> NULL]

\* useState initialiser of formData
InitialFormData(variant, initialData) ==
    IF initialData.id = NULL THEN DefaultFormData(variant)
    ELSE [f \in FormFields(variant) |->
             OrDefault(f, initialData[f], DefaultFormData(variant)[f])]

\* /^[a-z0-9-]+$/
SlugFormatOk(s) ==
    /\ s # <<>>
    /\ \A i \in 1..Len(s) : s[i] \in LowerLetters \cup Digits \cup {"-"}

NoSpaceOrAt(s, from, to) ==
    /\ from <= to
    /\ \A i \in from..to : s[i] \notin Whitespace \cup {"@"}

\* /^[^\s@]+@[^\s@]+\.[^\s@]+$/
EmailFormatOk(s) ==
    \E at \in 1..Len(s), dot \in 1..Len(s) :
        /\ s[at] = "@"
        /\ s[dot] = "."
        /\ NoSpaceOrAt(s, 1, at - 1)
        /\ NoSpaceOrAt(s, at + 1, dot - 1)
        /\ NoSpaceOrAt(s, dot + 1, Len(s))

\* value.replace(/\s/g, '')
RemoveWhitespace(s) == SelectSeq(s, LAMBDA c : c \notin Whitespace)

\* /^\+?[1-9]\d{1,14}$/
PhoneFormatOk(s) ==
    LET d == IF s # <<>> /\ s[1] = "+" THEN Tail(s) ELSE s
    IN  /\ Len(d) >= 2 /\ Len(d) <= 15
        /\ d[1] \in Digits \ {"0"}
        /\ \A i \in 2..Len(d) : d[i] \in Digits

OutOfRange(value, low, high) == JsLess(value, Num(low)) \/ JsGreater(value, Num(high))

\* validate(): the message put into newErrors for a field, or NULL
ValidationMessage(variant, d, field) ==
    IF variant = "main"
    THEN CASE field = "name" /\ Trim(d.name) = <<>> -> "Business name is required"
           [] field = "slug" /\ Trim(d.slug) = <<>> -> "Slug is required"
           [] field = "inactive_customer_days"
                  /\ OutOfRange(d.inactive_customer_days, 30, 365)
                -> "Must be between 30 and 365 days"
           [] OTHER -> NULL
    ELSE CASE field = "name" /\ Trim(d.name) = <<>> -> "Business name is required"
           [] field = "slug" /\ Trim(d.slug) = <<>> -> "Slug is required"
           [] field = "slug" /\ Trim(d.slug) # <<>> /\ ~SlugFormatOk(d.slug)
                -> "Slug must contain only lowercase letters, numbers, and hyphens"
           [] field = "contact_email" /\ d.contact_email # <<>>
                  /\ ~EmailFormatOk(d.contact_email)
                -> "Invalid email address"
           [] field = "twilio_phone_number" /\ d.twilio_phone_number # <<>>
                  /\ ~PhoneFormatOk(RemoveWhitespace(d.twilio_phone_number))
                -> "Invalid phone number format (e.g., +46 70 123 45 67)"
           [] field = "retention_months_new" /\ OutOfRange(d.retention_months_new, 1, 24)
                -> "Must be between 1 and 24 months"
           [] field = "retention_months_returning"
                  /\ OutOfRange(d.retention_months_returning, 1, 24)
                -> "Must be between 1 and 24 months"
           [] field = "retention_days_after_booking"
                  /\ OutOfRange(d.retention_days_after_booking, 1, 200)
                -> "Must be between 1 and 200 days"
           [] OTHER -> NULL

\* validate(): the newErrors object
Validate(variant, d) ==
    [f \in {g \in FormFields(variant) : ValidationMessage(variant, d, g) # NULL}
        |-> ValidationMessage(variant, d, f)]

\* Texts typed into the inputs
NameInputs == {<<"M", "y", " ", "S">>}
SlugInputs == {<<" ">>, <<"M", "y">>, <<"a", "_", "1">>}
EmailInputs == {<<"a", "@", "b", ".", "c">>, <<"a", "@", "b">>}
PhoneInputs == {<<"+", "4", "6", " ", "7">>, <<"0", "7">>}
DaysInputs == {<<"2", "9", ".", "5">>, <<"3", "0">>, <<"3", "6", "6">>}
MonthsInputs == {<<"0">>}
BookingDaysInputs == {<<"2", "0", "1">>}

InputsFor(field) ==
    CASE field = "name" -> NameInputs
      [] field = "slug" -> SlugInputs
      [] field = "contact_email" -> EmailInputs
      [] field = "twilio_phone_number" -> PhoneInputs
      [] field = "inactive_customer_days" -> DaysInputs
      [] field \in {"retention_months_new", "retention_months_returning"} -> MonthsInputs
      [] field = "retention_days_after_booking" -> BookingDaysInputs
      [] OTHER -> {}

\* handleChange: the value stored for an input event
ChangedValue(variant, field, text) ==
    IF field \notin NumberFields THEN text
    ELSE IF variant = "main" THEN OrZero(ParseFloat(text))
    ELSE OrZero(ParseInt(text))

\* Business objects held in the list, as handed to the form for editing
BusinessObjects ==
    {[id |-> "r1", name |-> <<"a">>, slug |-> <<"a">>, contact_email |-> <<>>,
      twilio_phone_number |-> <<>>, tone_of_voice |-> NULL,
      inactive_customer_days |-> 0, retention_months_new |-> Num(3),
      retention_months_returning |-> Num(2), retention_days_after_booking |-> 0,
      staff_members |-> <<>>,
      service_intervals |-> [n \in ServiceNames |->
                                [interval_months |-> Num(2), template |-> "standard"]]],
     [id |-> "r1", name |-> <<"a">>, slug |-> <<"M", "y">>, contact_email |-> <<>>,
      twilio_phone_number |-> <<>>, tone_of_voice |-> "Avslappnad",
      inactive_customer_days |-> Num(10), retention_months_new |-> Num(3),
      retention_months_returning |-> Num(2), retention_days_after_booking |-> Num(35),
      staff_members |-> <<>>, service_intervals |-> NoServices]}

MountedForm(parent, initialData) ==
    [open |-> TRUE, variant |-> form.variant, edits |-> form.edits, parent |-> parent,
     initial |-> initialData,
     data |-> InitialFormData(form.variant, initialData),
     errors |-> <<>>, file |-> NULL, touched |-> {},
     serviceManager |-> [newServiceName |-> <<>>, newServiceInterval |-> Num(2),
                         showTemplates |-> FALSE],
     staffManagement |-> [newStaffName |-> <<>>, newStaffTone |-> "Proffsig"]]

\* BusinessManagement.handleAddBusiness
HandleAddBusiness ==
    /\ ~form.open
    /\ ui' = [ui EXCEPT !.showForm = TRUE, !.editingBusiness = NULL]
    /\ form' = MountedForm("BusinessManagement", NoInitialData)
    /\ UNCHANGED <<sessionVars, requests, alerts, listVars, flags, onSubmitCalls>>

\* BusinessManagement.handleEditBusiness
HandleEditBusiness(business) ==
    /\ ~form.open
    /\ business.id \in displayed["businesses"]
    /\ ui' = [ui EXCEPT !.showForm = TRUE, !.editingBusiness = business.id]
    /\ form' = MountedForm("BusinessManagement", business)
    /\ UNCHANGED <<sessionVars, requests, alerts, listVars, flags, onSubmitCalls>>

\* Dashboard: setActiveTab('business-form'); editingBusiness is never set
OpenBusinessFormTab ==
    /\ ~form.open
    /\ ui' = [ui EXCEPT !.activeTab = "business-form"]
    /\ form' = MountedForm("Dashboard", NoInitialData)
    /\ UNCHANGED <<sessionVars, requests, alerts, listVars, flags, onSubmitCalls>>

\* handleCancel / handleBusinessCancel
HandleCancel ==
    /\ form.open
    /\ ui' = IF form.parent = "BusinessManagement"
             THEN [ui EXCEPT !.showForm = FALSE, !.editingBusiness = NULL]
             ELSE [ui EXCEPT !.activeTab = "business-management"]
    /\ form' = ClosedForm(form.variant, form.edits)
    /\ UNCHANGED <<sessionVars, requests, alerts, listVars, flags, onSubmitCalls>>

\* handleChange; the legacy variant also clears the field's error
HandleChange(field, text) ==
    /\ form.open
    /\ form.edits < MaxEdits
    /\ field \in FormFields(form.variant)
    /\ text \in InputsFor(field)
    /\ form' = [form EXCEPT
                   !.data[field] = ChangedValue(form.variant, field, text),
                   !.errors = IF form.variant = "legacy" /\ field \in DOMAIN @
                                 /\ @[field] # UNDEFINED
                              THEN [@ EXCEPT ![field] = UNDEFINED] ELSE @,
                   !.edits = @ + 1,
                   !.touched = @ \cup {field}]
    /\ UNCHANGED <<sessionVars, requests, alerts, listVars, flags, ui, onSubmitCalls>>

\* .replace(/[^a-z0-9\s-]/g, '')
KeepSlugChars(s) ==
    SelectSeq(s, LAMBDA c : c \in LowerLetters \cup Digits \cup Whitespace \cup {"-"})

\* .replace(/\s+/g, '-') for whitespace and .replace(/-+/g, '-') for "-":
\* every maximal run of characters of the class becomes one "-"
RECURSIVE RunsToDash(_, _)
RunsToDash(s, class) ==
    IF s = <<>> THEN <<>>
    ELSE IF s[1] \in class
         THEN IF Len(s) > 1 /\ s[2] \in class
              THEN RunsToDash(Tail(s), class)
              ELSE <<"-">> \o RunsToDash(Tail(s), class)
         ELSE <<s[1]>> \o RunsToDash(Tail(s), class)

\* generateSlug without its .replace(/-+/g, '-')
SlugOf_KeepsHyphenRuns(name) ==
    Trim(RunsToDash(KeepSlugChars(ToLowerCase(name)), Whitespace))

\* generateSlug: the slug computed from a name
SlugOf(name) ==
    Trim(RunsToDash(RunsToDash(KeepSlugChars(ToLowerCase(name)), Whitespace), {"-"}))

\* generateSlug (the Generate button next to the slug input)
GenerateSlug ==
    /\ form.open
    /\ form' = [form EXCEPT !.data.slug = SlugOf(form.data.name)]
    /\ UNCHANGED <<sessionVars, requests, alerts, listVars, flags, ui, onSubmitCalls>>

\* The file input of the legacy variant; the main variant has the state
\* but no input that sets it.
SetPriceListFile(file) ==
    /\ form.open
    /\ form.variant = "legacy"
    /\ form.file # file
    /\ form' = [form EXCEPT !.file = file]
    /\ UNCHANGED <<sessionVars, requests, alerts, listVars, flags, ui, onSubmitCalls>>

\* The submit button is disabled while the loading prop is true; the
\* Dashboard passes no loading prop.
SubmitDisabled ==
    form.parent = "BusinessManagement" /\ flags["BusinessManagement.loading"]

\* onSubmit argument: the form data and priceListFile || undefined
SubmitData == [data |-> form.data, priceListFile |-> form.file]

\* SaveRequest with the form's initial values in place of the submitted data
SaveRequest_InitialValues(parent, editing, submitData) ==
    AxiosRequest(IF parent = "BusinessManagement" THEN "handleFormSubmit"
                 ELSE "handleBusinessSubmit",
                 IF editing # NULL THEN "PUT" ELSE "POST",
                 IF editing # NULL THEN "/api/businesses/:id" ELSE "/api/businesses/",
                 [data |-> DefaultFormData(form.variant),
                  priceListFile |-> submitData.priceListFile,
                  editingBusiness |-> editing],
                 localStorage)

\* BusinessManagement.handleFormSubmit / Dashboard.handleBusinessSubmit up
\* to their first await: the create or update call
SaveRequest(parent, editing, submitData) ==
    AxiosRequest(IF parent = "BusinessManagement" THEN "handleFormSubmit"
                 ELSE "handleBusinessSubmit",
                 IF editing # NULL THEN "PUT" ELSE "POST",
                 IF editing # NULL THEN "/api/businesses/:id" ELSE "/api/businesses/",
                 [data |-> submitData.data, priceListFile |-> submitData.priceListFile,
                  editingBusiness |-> editing],
                 localStorage)

\* HandleSubmit calling onSubmit whatever validate() returned
HandleSubmit_IgnoresValidate ==
    /\ form.open
    /\ ~SubmitDisabled
    /\ HasRoom(IF form.parent = "BusinessManagement" THEN 3 ELSE 1)
    /\ form' = [form EXCEPT !.errors = Validate(form.variant, form.data)]
    /\ onSubmitCalls' = Append(onSubmitCalls,
           [parent |-> form.parent, editingBusiness |-> ui.editingBusiness,
            data |-> SubmitData.data, priceListFile |-> SubmitData.priceListFile])
    /\ requests' = Append(requests,
           SaveRequest(form.parent, ui.editingBusiness, SubmitData))
    /\ flags' = IF form.parent = "BusinessManagement"
                THEN SetFlag("BusinessManagement.loading", TRUE)
                ELSE flags
    /\ UNCHANGED <<sessionVars, alerts, listVars, ui>>

\* handleSubmit: validate, setErrors, and onSubmit when no error was found
HandleSubmit ==
    /\ form.open
    /\ ~SubmitDisabled
    /\ LET newErrors == Validate(form.variant, form.data)
       IN  /\ form' = [form EXCEPT !.errors = newErrors]
           /\ IF DOMAIN newErrors = {}
              THEN /\ HasRoom(IF form.parent = "BusinessManagement" THEN 3 ELSE 1)
                   /\ onSubmitCalls' = Append(onSubmitCalls,
                          [parent |-> form.parent, editingBusiness |-> ui.editingBusiness,
                           data |-> SubmitData.data,
                           priceListFile |-> SubmitData.priceListFile])
                   /\ requests' = Append(requests,
                          SaveRequest(form.parent, ui.editingBusiness, SubmitData))
                   /\ flags' = IF form.parent = "BusinessManagement"
                               THEN SetFlag("BusinessManagement.loading", TRUE)
                               ELSE flags
              ELSE UNCHANGED <<onSubmitCalls, requests, flags>>
    /\ UNCHANGED <<sessionVars, alerts, listVars, ui>>

\* Ids the server gives to created businesses
CreatedIds == {"r2", "r3"}

\* Bodies of a successful /api/pricelist/import response: the fields the
\* price list page reads from this endpoint, errors being a list of messages
ImportResults ==
    {[total_rows |-> 2, imported_count |-> 2, duplicate_count |-> 0, errors |-> <<>>],
     [total_rows |-> 3, imported_count |-> 1, duplicate_count |-> 1,
      errors |-> <<"Row 3: price missing">>]}
NoResult == [total_rows |-> 0, imported_count |-> 0, duplicate_count |-> 0, errors |-> <<>>]

\* ${result.key} in a template literal: a property the object lacks reads as
\* undefined
Interpolate(result, key) ==
    IF key \in DOMAIN result THEN ToString(result[key]) ELSE UNDEFINED

\* result.key > 0: undefined converts to NaN, a list of messages to 0 when
\* empty and to NaN otherwise, and NaN > 0 is false
AboveZero(result, key) ==
    /\ key \in DOMAIN result
    /\ IF key = "errors" THEN FALSE ELSE result[key] > 0

\* The alert of a finished import: importResult.imported, and
\* importResult.duplicates and importResult.errors when they are above zero
ImportAlert(result) ==
    [text |-> "Business created successfully! Price list imported:",
     imported |-> Interpolate(result, "imported"),
     shown |-> {k \in {"duplicates", "errors"} : AboveZero(result, k)},
     duplicates |-> Interpolate(result, "duplicates"),
     errors |-> Interpolate(result, "errors")]

ImportFailedAlert ==
    Alert("Business created successfully! However, price list import failed: ")
SaveFailedAlert == Alert("Failed to save business: ")

\* fetchBusinesses(false), as called by handleFormSubmit
RefreshRequest(ls) ==
    AxiosRequest("handleFormSubmit.fetchBusinesses", "GET", "/api/businesses/",
                 NoPayload, ls)

\* formData.append('file', ...); formData.append('business_id', businessId)
ImportRequest(file, businessId, ls) ==
    AxiosRequest("handleFormSubmit.importPriceList", "POST", "/api/pricelist/import",
                 [file |-> file, business_id |-> businessId], ls)

\* The server's answer to a create or update call: a create that succeeds
\* stores the business under a fresh id
ServerSaves(i, st, id) ==
    IF st = "200" /\ requests[i].method = "POST"
    THEN /\ id \notin server["businesses"]
         /\ server' = [server EXCEPT !["businesses"] = @ \cup {id}]
    ELSE /\ id = CHOOSE c \in CreatedIds : TRUE
         /\ UNCHANGED server

\* SaveBusinessResponse sending a failed create or update once more
SaveBusinessResponse_Retries(i, st, id) ==
    /\ Pending(i, "handleFormSubmit")
    /\ ServerSaves(i, st, id)
    /\ localStorage' = ResponseInterceptorStorage(requests[i], st, localStorage)
    /\ loginNavs' = loginNavs + ResponseInterceptorNavs(requests[i], st)
    /\ LET p == requests[i].payload
           businessId == IF p.editingBusiness # NULL THEN p.editingBusiness ELSE id
       IN  IF st # "200"
           THEN /\ requests' = Append(Settle(i, st), requests[i])
                /\ UNCHANGED <<alerts, flags>>
           ELSE IF p.priceListFile # NULL /\ p.editingBusiness = NULL
           THEN /\ requests' = Append(Settle(i, st),
                       ImportRequest(p.priceListFile, businessId, localStorage))
                /\ UNCHANGED <<alerts, flags>>
           ELSE /\ requests' = Append(Settle(i, st), RefreshRequest(localStorage))
                /\ alerts' = Append(alerts,
                       Alert(IF p.editingBusiness # NULL
                             THEN "Business updated successfully!"
                             ELSE "Business created successfully!"))
                /\ UNCHANGED flags
    /\ UNCHANGED <<user, authPc, loginPc, dashPc, displayed, prompts, banner, formVars,
                   retention, views, logoutAt>>

\* handleFormSubmit after await createBusiness / updateBusiness
SaveBusinessResponse(i, st, id) ==
    /\ Pending(i, "handleFormSubmit")
    /\ ServerSaves(i, st, id)
    /\ localStorage' = ResponseInterceptorStorage(requests[i], st, localStorage)
    /\ loginNavs' = loginNavs + ResponseInterceptorNavs(requests[i], st)
    /\ LET p == requests[i].payload
           businessId == IF p.editingBusiness # NULL THEN p.editingBusiness ELSE id
       IN  IF st # "200"
           THEN /\ requests' = Settle(i, st)
                /\ alerts' = Append(alerts, SaveFailedAlert)
                /\ flags' = SetFlag("BusinessManagement.loading", FALSE)
           ELSE IF p.priceListFile # NULL /\ p.editingBusiness = NULL
           THEN /\ requests' = Append(Settle(i, st),
                       ImportRequest(p.priceListFile, businessId, localStorage))
                /\ UNCHANGED <<alerts, flags>>
           ELSE /\ requests' = Append(Settle(i, st), RefreshRequest(localStorage))
                /\ alerts' = Append(alerts,
                       Alert(IF p.editingBusiness # NULL
                             THEN "Business updated successfully!"
                             ELSE "Business created successfully!"))
                /\ UNCHANGED flags
    /\ UNCHANGED <<user, authPc, loginPc, dashPc, displayed, prompts, banner, formVars,
                   retention, views, logoutAt>>

\* ImportPriceListResponse undoing the creation when the import fails
ImportPriceListResponse_RollsBack(i, st, result) ==
    /\ Pending(i, "handleFormSubmit.importPriceList")
    /\ st # "200" => result = NoResult
    /\ st = "200" => result \in ImportResults
    /\ localStorage' = ResponseInterceptorStorage(requests[i], st, localStorage)
    /\ loginNavs' = loginNavs + ResponseInterceptorNavs(requests[i], st)
    /\ alerts' = Append(alerts, IF st = "200" THEN ImportAlert(result)
                                ELSE SaveFailedAlert)
    /\ requests' = Append(Settle(i, st),
           IF st = "200" THEN RefreshRequest(localStorage')
           ELSE AxiosRequest("handleFormSubmit.fetchBusinesses", "DELETE",
                             "/api/businesses/:id",
                             [id |-> requests[i].payload.business_id], localStorage'))
    /\ UNCHANGED <<user, authPc, loginPc, dashPc, listVars, flags, formVars, logoutAt>>

\* handleFormSubmit after await importPriceList: either way the list is
\* refreshed next
ImportPriceListResponse(i, st, result) ==
    /\ Pending(i, "handleFormSubmit.importPriceList")
    /\ st # "200" => result = NoResult
    /\ st = "200" => result \in ImportResults
    /\ localStorage' = ResponseInterceptorStorage(requests[i], st, localStorage)
    /\ loginNavs' = loginNavs + ResponseInterceptorNavs(requests[i], st)
    /\ alerts' = Append(alerts, IF st = "200" THEN ImportAlert(result)
                                ELSE ImportFailedAlert)
    /\ requests' = Append(Settle(i, st), RefreshRequest(localStorage'))
    /\ UNCHANGED <<user, authPc, loginPc, dashPc, listVars, flags, formVars, logoutAt>>

\* handleFormSubmit after await fetchBusinesses(false), which swallows its
\* failure: setShowForm(false), setEditingBusiness(null), setLoading(false)
RefreshBusinessesResponse(i, st) ==
    /\ Pending(i, "handleFormSubmit.fetchBusinesses")
    /\ requests' = Settle(i, st)
    /\ localStorage' = ResponseInterceptorStorage(requests[i], st, localStorage)
    /\ loginNavs' = loginNavs + ResponseInterceptorNavs(requests[i], st)
    /\ displayed' = IF st = "200"
                    THEN [displayed EXCEPT !["businesses"] = server["businesses"]]
                    ELSE displayed
    /\ ui' = [ui EXCEPT !.showForm = FALSE, !.editingBusiness = NULL]
    /\ form' = IF form.open /\ form.parent = "BusinessManagement"
               THEN ClosedForm(form.variant, form.edits) ELSE form
    /\ flags' = SetFlag("BusinessManagement.loading", FALSE)
    /\ UNCHANGED <<user, authPc, loginPc, dashPc, alerts, server, prompts, banner,
                   onSubmitCalls, retention, views, logoutAt>>

\* Dashboard.handleBusinessSubmit after await createBusiness: a failure is
\* only logged
DashboardSaveResponse(i, st, id) ==
    /\ Pending(i, "handleBusinessSubmit")
    /\ ServerSaves(i, st, id)
    /\ requests' = Settle(i, st)
    /\ localStorage' = ResponseInterceptorStorage(requests[i], st, localStorage)
    /\ loginNavs' = loginNavs + ResponseInterceptorNavs(requests[i], st)
    /\ IF st = "200"
       THEN /\ ui' = [ui EXCEPT !.activeTab = "business-management"]
            /\ form' = IF form.open /\ form.parent = "Dashboard"
                       THEN ClosedForm(form.variant, form.edits) ELSE form
       ELSE UNCHANGED <<ui, form>>
    /\ UNCHANGED <<user, authPc, loginPc, dashPc, alerts, displayed, prompts, banner,
                   flags, onSubmitCalls, retention, views, logoutAt>>

PriceListFiles == {"prices.csv"}

\* Outcomes of a call as the save handlers tell them apart
SaveStatuses == {"200", "401", "500"}

\* A signed-in user on the business screens, no form open.
InitForm ==
    /\ LoggedIn("t1", "user")
    /\ requests = <<>>
    /\ alerts = <<>>
    /\ server = [s \in Screens |-> {"r1"}]
    /\ displayed = [s \in Screens |-> {"r1"}]
    /\ prompts = <<>>
    /\ banner = [error |-> NULL, success |-> NULL]
    /\ flags = [f \in FlagNames |-> FALSE]
    /\ \E variant \in Variants : FormIdle(variant)
    /\ RetentionIdle
    /\ ViewsIdle

\* The form from mounting to onSubmit, the responses still outstanding.
NextForm ==
    \/ HandleAddBusiness
    \/ \E business \in BusinessObjects : HandleEditBusiness(business)
    \/ OpenBusinessFormTab
    \/ HandleCancel
    \/ \E field \in FormFields("main") \cup FormFields("legacy") :
           \E text \in InputsFor(field) : HandleChange(field, text)
    \/ GenerateSlug
    \/ \E file \in PriceListFiles \cup {NULL} : SetPriceListFile(file)
    \/ HandleSubmit

SpecForm == InitForm /\ [][NextForm]_vars

\* Saving a business: a form filled in with a valid name and slug, with or
\* without a price list, and what the parents do with the responses.
NextSave ==
    \/ HandleAddBusiness
    \/ OpenBusinessFormTab
    \/ \E text \in NameInputs : HandleChange("name", text)
    \/ GenerateSlug
    \/ \E file \in PriceListFiles \cup {NULL} : SetPriceListFile(file)
    \/ HandleSubmit
    \/ \E i \in 1..MaxRequests + 1, st \in SaveStatuses, id \in CreatedIds :
           SaveBusinessResponse(i, st, id)
    \/ \E i \in 1..MaxRequests + 1, st \in SaveStatuses, result \in ImportResults \cup {NoResult} :
           ImportPriceListResponse(i, st, result)
    \/ \E i \in 1..MaxRequests + 1, st \in SaveStatuses : RefreshBusinessesResponse(i, st)
    \/ \E i \in 1..MaxRequests + 1, st \in SaveStatuses, id \in CreatedIds :
           DashboardSaveResponse(i, st, id)

SpecSave == InitForm /\ [][NextSave]_vars

----------------------------------------------------------------------------
(* Service retention intervals: ServiceRetentionIntervals (inline edit and *)
(* the add-service row) and the SMSSettings table with its Save button.    *)

\* parseInterval returns null
NoInterval == -999998

\* serviceRetentionApi.parseInterval
ParseInterval(text) ==
    LET parsed == ParseFloat(text)
    IN  IF IsNaN(parsed) \/ parsed < Half \/ parsed > Num(12) THEN NoInterval
        ELSE parsed

\* Texts typed into the interval inputs
IntervalInputs == {<<>>, <<"0", ".", "5">>, <<"1", "2", ".", "5">>}
ServiceNameInputs == {<<"N", "y">>}

\* ServiceRetentionIntervals.handleIntervalChange up to its await
HandleIntervalChange(serviceName, newInterval) ==
    /\ serviceName \in DOMAIN retention.intervals
    /\ LET parsed == ParseInterval(newInterval)
       IN  IF parsed = NoInterval
           THEN UNCHANGED <<requests, flags>>
           ELSE /\ HasRoom(1)
                /\ flags' = SetFlag("ServiceRetentionIntervals.saving", TRUE)
                /\ requests' = Append(requests,
                       AxiosRequest("handleIntervalChange", "PUT",
                                    "/businesses/service-intervals",
                                    [service_name |-> serviceName,
                                     interval_months |-> parsed], localStorage))
    /\ UNCHANGED <<sessionVars, alerts, listVars, formVars>>

\* handleIntervalChange after await updateInterval: the local entry is
\* patched with the parsed value, or the failure is alerted
UpdateIntervalResponse(i, st) ==
    /\ Pending(i, "handleIntervalChange")
    /\ requests' = Settle(i, st)
    /\ localStorage' = ResponseInterceptorStorage(requests[i], st, localStorage)
    /\ loginNavs' = loginNavs + ResponseInterceptorNavs(requests[i], st)
    /\ LET p == requests[i].payload
       IN  IF st = "200"
           THEN /\ retention' = [retention EXCEPT
                       !.stored[p.service_name] = p.interval_months,
                       !.intervals = [n \in DOMAIN @ |->
                                         IF n = p.service_name THEN p.interval_months
                                         ELSE @[n]]]
                /\ UNCHANGED alerts
           ELSE /\ alerts' = Append(alerts,
                       Alert("Kunde inte uppdatera intervall. Forsok igen."))
                /\ UNCHANGED retention
    /\ flags' = SetFlag("ServiceRetentionIntervals.saving", FALSE)
    /\ UNCHANGED <<user, authPc, loginPc, dashPc, displayed, server, prompts, banner,
                   formVars, views, logoutAt>>

\* onChange of the add-service name input
SetNewServiceName(text) ==
    /\ retention' = [retention EXCEPT !.newService.name = text]
    /\ UNCHANGED <<sessionVars, requests, alerts, displayed, server, prompts, banner,
                   flags, formVars, views>>

\* onChange of the add-service interval input: parseFloat(e.target.value)
SetNewServiceInterval(text) ==
    /\ retention' = [retention EXCEPT !.newService.interval = ParseFloat(text)]
    /\ UNCHANGED <<sessionVars, requests, alerts, displayed, server, prompts, banner,
                   flags, formVars, views>>

\* handleAddService up to its await: newService.interval is sent as it is.
\* (The alerts of a blank name are capped like the requests.)
HandleAddService ==
    /\ IF Trim(retention.newService.name) = <<>>
       THEN /\ Len(alerts) < MaxRequests
            /\ alerts' = Append(alerts, Alert("Ange ett namn for tjansten"))
            /\ UNCHANGED <<requests, flags>>
       ELSE /\ HasRoom(2)
            /\ flags' = SetFlag("ServiceRetentionIntervals.saving", TRUE)
            /\ requests' = Append(requests,
                   AxiosRequest("handleAddService", "POST",
                                "/businesses/service-intervals",
                                [service_name |-> retention.newService.name,
                                 service_category |-> retention.newService.category,
                                 interval_months |-> retention.newService.interval],
                                localStorage))
            /\ UNCHANGED alerts
    /\ UNCHANGED <<sessionVars, listVars, formVars>>

\* handleAddService after await createInterval: loadIntervals() on success
CreateIntervalResponse(i, st) ==
    /\ Pending(i, "handleAddService")
    /\ localStorage' = ResponseInterceptorStorage(requests[i], st, localStorage)
    /\ loginNavs' = loginNavs + ResponseInterceptorNavs(requests[i], st)
    /\ LET p == requests[i].payload
       IN  IF st = "200"
           THEN /\ retention' = [retention EXCEPT !.stored =
                       [n \in DOMAIN @ \cup {p.service_name} |->
                           IF n = p.service_name THEN p.interval_months ELSE @[n]]]
                /\ requests' = Append(Settle(i, st),
                       AxiosRequest("handleAddService.loadIntervals", "GET",
                                    "/businesses/service-intervals", NoPayload,
                                    localStorage))
                /\ flags' = SetFlag("ServiceRetentionIntervals.loading", TRUE)
                /\ UNCHANGED alerts
           ELSE /\ requests' = Settle(i, st)
                /\ alerts' = Append(alerts,
                       Alert("Kunde inte lagga till tjanst. Forsok igen."))
                /\ flags' = SetFlag("ServiceRetentionIntervals.saving", FALSE)
                /\ UNCHANGED retention
    /\ UNCHANGED <<user, authPc, loginPc, dashPc, displayed, server, prompts, banner,
                   formVars, views, logoutAt>>

\* handleAddService after await loadIntervals(): getIntervals turns a
\* failure into {}; then the add-service row is reset
AddServiceLoadResponse(i, st) ==
    /\ Pending(i, "handleAddService.loadIntervals")
    /\ requests' = Settle(i, st)
    /\ localStorage' = ResponseInterceptorStorage(requests[i], st, localStorage)
    /\ loginNavs' = loginNavs + ResponseInterceptorNavs(requests[i], st)
    /\ retention' = [retention EXCEPT
           !.intervals = IF st = "200" THEN retention.stored ELSE [n \in {} |-> NaN],
           !.newService = [name |-> <<>>, category |-> "mens_hair", interval |-> 150]]
    /\ flags' = [flags EXCEPT !["ServiceRetentionIntervals.loading"] = FALSE,
                              !["ServiceRetentionIntervals.saving"] = FALSE]
    /\ UNCHANGED <<user, authPc, loginPc, dashPc, alerts, displayed, server, prompts,
                   banner, formVars, views, logoutAt>>

\* SMSSettings: onChange of a row's interval input,
\* updateServiceInterval(index, 'interval_months', parseFloat(e.target.value))
UpdateServiceInterval(serviceName, text) ==
    /\ retention' = [retention EXCEPT !.serviceIntervals[serviceName] = ParseFloat(text)]
    /\ UNCHANGED <<sessionVars, requests, alerts, displayed, server, prompts, banner,
                   flags, formVars, views>>

\* SMSSettings.saveSettings up to its await
SaveSettings ==
    /\ HasRoom(1)
    /\ retention' = [retention EXCEPT !.message = NULL]
    /\ requests' = Append(requests,
           AxiosRequest("saveSettings", "PUT", "/api/businesses/:id",
                        [service_intervals |-> retention.serviceIntervals],
                        localStorage))
    /\ UNCHANGED <<sessionVars, alerts, displayed, server, prompts, banner, flags,
                   formVars, views>>

\* saveSettings after await apiService.put
SaveSettingsResponse(i, st) ==
    /\ Pending(i, "saveSettings")
    /\ requests' = Settle(i, st)
    /\ localStorage' = ResponseInterceptorStorage(requests[i], st, localStorage)
    /\ loginNavs' = loginNavs + ResponseInterceptorNavs(requests[i], st)
    /\ retention' = [retention EXCEPT
           !.message = IF st = "200" THEN "SMS settings saved successfully!"
                       ELSE "Failed to save settings",
           !.stored = IF st = "200"
                      THEN [n \in DOMAIN @ |->
                               IF n \in DOMAIN requests[i].payload.service_intervals
                               THEN requests[i].payload.service_intervals[n] ELSE @[n]]
                      ELSE @]
    /\ UNCHANGED <<user, authPc, loginPc, dashPc, alerts, displayed, server, prompts,
                   banner, flags, formVars, views, logoutAt>>

\* A signed-in user on the service-interval screens.
InitIntervals ==
    /\ LoggedIn("t1", "user")
    /\ requests = <<>>
    /\ alerts = <<>>
    /\ server = [s \in Screens |-> {"r1"}]
    /\ displayed = [s \in Screens |-> {"r1"}]
    /\ prompts = <<>>
    /\ banner = [error |-> NULL, success |-> NULL]
    /\ flags = [f \in FlagNames |-> FALSE]
    /\ FormIdle("main")
    /\ RetentionIdle
    /\ ViewsIdle

\* ServiceRetentionIntervals: inline edits and the add-service row
NextIntervals ==
    \/ \E n \in ServiceNames \cup ServiceNameInputs, text \in IntervalInputs :
           HandleIntervalChange(n, text)
    \/ \E i \in 1..MaxRequests + 1, st \in SaveStatuses : UpdateIntervalResponse(i, st)
    \/ \E text \in ServiceNameInputs : SetNewServiceName(text)
    \/ \E text \in IntervalInputs : SetNewServiceInterval(text)
    \/ HandleAddService
    \/ \E i \in 1..MaxRequests + 1, st \in SaveStatuses : CreateIntervalResponse(i, st)
    \/ \E i \in 1..MaxRequests + 1, st \in SaveStatuses : AddServiceLoadResponse(i, st)

SpecIntervals == InitIntervals /\ [][NextIntervals]_vars

\* SMSSettings: the interval column of the table and the Save button
NextSettings ==
    \/ \E n \in ServiceNames, text \in IntervalInputs : UpdateServiceInterval(n, text)
    \/ SaveSettings
    \/ \E i \in 1..MaxRequests + 1, st \in SaveStatuses : SaveSettingsResponse(i, st)

SpecSettings == InitIntervals /\ [][NextSettings]_vars

----------------------------------------------------------------------------
(* ServiceManager and StaffManagement: the sub-editors that the main      *)
(* BusinessForm renders for formData.service_intervals and                *)
(* formData.staff_members.  Their onChange props are                      *)
(* setFormData({ ...formData, service_intervals: services }) and          *)
(* setFormData({ ...formData, staff_members: staff }).                    *)

MaxServices == 2
MaxStaff == 2

\* Predefined service templates (a and o for the Swedish letters)
SERVICE_TEMPLATES ==
    {    [name |-> <<"H", "e", "r", "r", "k", "l", "i", "p", "p", "n", "i", "n", "g">>,
      interval_months |-> Num(1)],
     [name |-> <<"D", "a", "m", "k", "l", "i", "p", "p", "n", "i", "n", "g">>,
      interval_months |-> Num(2)],
     [name |-> <<"B", "a", "r", "n", "k", "l", "i", "p", "p", "n", "i", "n", "g">>,
      interval_months |-> Num(1)],
     [name |-> <<"F", "a", "r", "g", "n", "i", "n", "g">>,
      interval_months |-> Num(2)],
     [name |-> <<"S", "l", "i", "n", "g", "o", "r">>,
      interval_months |-> Num(3)],
     [name |-> <<"B", "a", "l", "a", "y", "a", "g", "e">>,
      interval_months |-> Num(4)],
     [name |-> <<"P", "e", "r", "m", "a", "n", "e", "n", "t">>,
      interval_months |-> Num(3)],
     [name |-> <<"K", "e", "r", "a", "t", "i", "n", "b", "e", "h", "a", "n", "d", "l", "i", "n", "g">>,
      interval_months |-> Num(4)],
     [name |-> <<"K", "l", "i", "p", "p", "n", "i", "n", "g", " ", "+", " ", "F", "a", "r", "g">>,
      interval_months |-> Num(2)],
     [name |-> <<"S", "t", "y", "l", "i", "n", "g">>,
      interval_months |-> Num(1)],
     [name |-> <<"U", "p", "p", "s", "a", "t", "t", "n", "i", "n", "g">>,
      interval_months |-> Num(0)]}

TONE_OPTIONS == {"Jessica-tonen", "Proffsig", "Kaxig/Barberare", "Klassisk/Gunilla",
                 "Spirituell/Eko", "Trendig/Peppig"}

\* Texts typed into the sub-editors' inputs
NewServiceNameInputs == {<<"K", "l", "i", "p", "p">>, <<" ", "K", "l", "i", "p", "p", " ">>,
                         <<" ">>}
NewServiceMonthsInputs == {<<"7">>, <<>>}
ServiceMonthsInputs == {<<"1", "3">>, <<>>}
StaffNameInputs == {<<"A", "n", "n", " ">>, <<"P", "r", "o", "f", "f", "s">>}

\* Every key the mapping can get
ServiceKeys ==
    ServiceNames \cup NewServiceNameInputs \cup {Trim(t) : t \in NewServiceNameInputs}
        \cup {t.name : t \in SERVICE_TEMPLATES}

SubEditorsShown == form.open /\ form.variant = "main"

\* { ...services, [name]: value }
WithService(services, name, value) ==
    [n \in DOMAIN services \cup {name} |-> IF n = name THEN value ELSE services[n]]

\* delete updatedServices[serviceName]
WithoutService(services, name) == [n \in DOMAIN services \ {name} |-> services[n]]

\* Room for one more key in the mapping
ServiceFits(services, name) ==
    name \in DOMAIN services \/ Cardinality(DOMAIN services) < MaxServices

\* onChange of the new-service name input
SetNewServiceNameInput(text) ==
    /\ SubEditorsShown
    /\ form' = [form EXCEPT !.serviceManager.newServiceName = text]
    /\ UNCHANGED <<sessionVars, requests, alerts, listVars, flags, ui, onSubmitCalls>>

\* onChange of the new-service interval input: parseInt(e.target.value) || 0
SetNewServiceIntervalInput(text) ==
    /\ SubEditorsShown
    /\ form' = [form EXCEPT !.serviceManager.newServiceInterval = OrZero(ParseInt(text))]
    /\ UNCHANGED <<sessionVars, requests, alerts, listVars, flags, ui, onSubmitCalls>>

\* The templates toggle button
ToggleTemplates ==
    /\ SubEditorsShown
    /\ form' = [form EXCEPT !.serviceManager.showTemplates = ~@]
    /\ UNCHANGED <<sessionVars, requests, alerts, listVars, flags, ui, onSubmitCalls>>

\* ServiceManager.handleAddService with the name used as typed for the key
ServiceManagerHandleAddService_UntrimmedKey ==
    /\ SubEditorsShown
    /\ Trim(form.serviceManager.newServiceName) # <<>>
    /\ ServiceFits(form.data.service_intervals, form.serviceManager.newServiceName)
    /\ form' = [form EXCEPT
           !.data.service_intervals =
               WithService(@, form.serviceManager.newServiceName,
                           [interval_months |-> form.serviceManager.newServiceInterval,
                            template |-> "standard"]),
           !.serviceManager.newServiceName = <<>>,
           !.serviceManager.newServiceInterval = Num(2)]
    /\ UNCHANGED <<sessionVars, requests, alerts, listVars, flags, ui, onSubmitCalls>>

\* ServiceManager.handleAddService (button, or Enter in the name input);
\* a blank name returns at once
ServiceManagerHandleAddService ==
    /\ SubEditorsShown
    /\ Trim(form.serviceManager.newServiceName) # <<>>
    /\ ServiceFits(form.data.service_intervals, Trim(form.serviceManager.newServiceName))
    /\ form' = [form EXCEPT
           !.data.service_intervals =
               WithService(@, Trim(form.serviceManager.newServiceName),
                           [interval_months |-> form.serviceManager.newServiceInterval,
                            template |-> "standard"]),
           !.serviceManager.newServiceName = <<>>,
           !.serviceManager.newServiceInterval = Num(2)]
    /\ UNCHANGED <<sessionVars, requests, alerts, listVars, flags, ui, onSubmitCalls>>

\* ServiceManager.handleAddFromTemplate; the template's button is shown
\* with the templates and disabled while services[template.name] exists
HandleAddFromTemplate(template) ==
    /\ SubEditorsShown
    /\ form.serviceManager.showTemplates
    /\ template.name \notin DOMAIN form.data.service_intervals
    /\ ServiceFits(form.data.service_intervals, template.name)
    /\ form' = [form EXCEPT
           !.data.service_intervals =
               WithService(@, template.name,
                           [interval_months |-> template.interval_months,
                            template |-> "standard"]),
           !.serviceManager.showTemplates = FALSE]
    /\ UNCHANGED <<sessionVars, requests, alerts, listVars, flags, ui, onSubmitCalls>>

\* ServiceManager.handleRemoveService (the bin button of a listed service)
HandleRemoveService(serviceName) ==
    /\ SubEditorsShown
    /\ serviceName \in DOMAIN form.data.service_intervals
    /\ form' = [form EXCEPT !.data.service_intervals = WithoutService(@, serviceName)]
    /\ UNCHANGED <<sessionVars, requests, alerts, listVars, flags, ui, onSubmitCalls>>

\* HandleUpdateService saving the changed interval by a request of its own
HandleUpdateService_SendsPut(serviceName, text) ==
    /\ SubEditorsShown
    /\ serviceName \in DOMAIN form.data.service_intervals
    /\ HasRoom(1)
    /\ form' = [form EXCEPT
           !.data.service_intervals =
               WithService(@, serviceName,
                           [@[serviceName] EXCEPT
                               !.interval_months = OrZero(ParseInt(text))])]
    /\ requests' = Append(requests,
           AxiosRequest("handleUpdateService", "PUT", "/businesses/service-intervals",
                        [service_name |-> serviceName,
                         interval_months |-> OrZero(ParseInt(text))], localStorage))
    /\ UNCHANGED <<sessionVars, alerts, listVars, flags, ui, onSubmitCalls>>

\* ServiceManager.handleUpdateService from a listed service's interval
\* input: handleUpdateService(name, 'interval_months', parseInt(value) || 0)
HandleUpdateService(serviceName, text) ==
    /\ SubEditorsShown
    /\ serviceName \in DOMAIN form.data.service_intervals
    /\ form' = [form EXCEPT
           !.data.service_intervals =
               WithService(@, serviceName,
                           [@[serviceName] EXCEPT
                               !.interval_months = OrZero(ParseInt(text))])]
    /\ UNCHANGED <<sessionVars, requests, alerts, listVars, flags, ui, onSubmitCalls>>

\* onChange of the new-staff name input
SetNewStaffName(text) ==
    /\ SubEditorsShown
    /\ form' = [form EXCEPT !.staffManagement.newStaffName = text]
    /\ UNCHANGED <<sessionVars, requests, alerts, listVars, flags, ui, onSubmitCalls>>

\* onChange of the new-staff tone select: one of its options
SetNewStaffTone(tone) ==
    /\ SubEditorsShown
    /\ tone \in TONE_OPTIONS
    /\ form' = [form EXCEPT !.staffManagement.newStaffTone = tone]
    /\ UNCHANGED <<sessionVars, requests, alerts, listVars, flags, ui, onSubmitCalls>>

\* StaffManagement.handleAddStaff storing a tone that was typed freely
HandleAddStaff_FreeTextTone ==
    /\ SubEditorsShown
    /\ Trim(form.staffManagement.newStaffName) # <<>>
    /\ Len(form.data.staff_members) < MaxStaff
    /\ form' = [form EXCEPT
           !.data.staff_members =
               Append(@, [name |-> Trim(form.staffManagement.newStaffName),
                          tone_of_voice |-> "Glad",
                          is_active |-> TRUE]),
           !.staffManagement = [newStaffName |-> <<>>, newStaffTone |-> "Proffsig"]]
    /\ UNCHANGED <<sessionVars, requests, alerts, listVars, flags, ui, onSubmitCalls>>

\* StaffManagement.handleAddStaff; a blank name returns at once
HandleAddStaff ==
    /\ SubEditorsShown
    /\ Trim(form.staffManagement.newStaffName) # <<>>
    /\ Len(form.data.staff_members) < MaxStaff
    /\ form' = [form EXCEPT
           !.data.staff_members =
               Append(@, [name |-> Trim(form.staffManagement.newStaffName),
                          tone_of_voice |-> form.staffManagement.newStaffTone,
                          is_active |-> TRUE]),
           !.staffManagement = [newStaffName |-> <<>>, newStaffTone |-> "Proffsig"]]
    /\ UNCHANGED <<sessionVars, requests, alerts, listVars, flags, ui, onSubmitCalls>>

\* StaffManagement.handleRemoveStaff: filter((_, i) => i !== index)
HandleRemoveStaff(index) ==
    /\ SubEditorsShown
    /\ index \in 1..Len(form.data.staff_members)
    /\ form' = [form EXCEPT
           !.data.staff_members =
               [k \in 1..Len(@) - 1 |-> IF k < index THEN @[k] ELSE @[k + 1]]]
    /\ UNCHANGED <<sessionVars, requests, alerts, listVars, flags, ui, onSubmitCalls>>

\* StaffManagement.handleUpdateStaff from a listed member's name input
\* (field 'name', any text) or tone select (field 'tone_of_voice', one of
\* the options)
HandleUpdateStaff(index, field, value) ==
    /\ SubEditorsShown
    /\ index \in 1..Len(form.data.staff_members)
    /\ \/ field = "name" /\ value \in StaffNameInputs
       \/ field = "tone_of_voice" /\ value \in TONE_OPTIONS
    /\ form' = [form EXCEPT
           !.data.staff_members[index] =
               IF field = "name" THEN [@ EXCEPT !.name = value]
               ELSE [@ EXCEPT !.tone_of_voice = value]]
    /\ UNCHANGED <<sessionVars, requests, alerts, listVars, flags, ui, onSubmitCalls>>

\* The main form on the business-management screen
InitManagers ==
    /\ InitForm
    /\ form.variant = "main"

\* ServiceManager inside the form
NextServices ==
    \/ HandleAddBusiness
    \/ \E b \in BusinessObjects : HandleEditBusiness(b)
    \/ \E text \in NewServiceNameInputs : SetNewServiceNameInput(text)
    \/ \E text \in NewServiceMonthsInputs : SetNewServiceIntervalInput(text)
    \/ ToggleTemplates
    \/ ServiceManagerHandleAddService
    \/ \E template \in SERVICE_TEMPLATES : HandleAddFromTemplate(template)
    \/ \E n \in ServiceKeys : HandleRemoveService(n)
    \/ \E n \in ServiceKeys, text \in ServiceMonthsInputs : HandleUpdateService(n, text)

SpecServices == InitManagers /\ [][NextServices]_vars

\* StaffManagement inside the form
NextStaff ==
    \/ HandleAddBusiness
    \/ \E text \in StaffNameInputs : SetNewStaffName(text)
    \/ \E tone \in TONE_OPTIONS : SetNewStaffTone(tone)
    \/ HandleAddStaff
    \/ \E index \in 1..MaxStaff + 1 : HandleRemoveStaff(index)
    \/ \E index \in 1..MaxStaff + 1, value \in StaffNameInputs :
           HandleUpdateStaff(index, "name", value)
    \/ \E index \in 1..MaxStaff + 1, value \in TONE_OPTIONS :
           HandleUpdateStaff(index, "tone_of_voice", value)

SpecStaff == InitManagers /\ [][NextStaff]_vars

\* Both sub-editors while a listed business is edited, up to the request
\* that the form's submit sends
NextSubEditors ==
    \/ \E b \in {o \in BusinessObjects : o.service_intervals # NoServices} :
           HandleEditBusiness(b)
    \/ \E text \in {<<" ", "K", "l", "i", "p", "p", " ">>} : SetNewServiceNameInput(text)
    \/ ToggleTemplates
    \/ ServiceManagerHandleAddService
    \/ \E template \in {t \in SERVICE_TEMPLATES : t.interval_months = 0} :
           HandleAddFromTemplate(template)
    \/ \E n \in ServiceKeys : HandleRemoveService(n)
    \/ \E n \in ServiceKeys : HandleUpdateService(n, <<"1", "3">>)
    \/ \E text \in {<<"A", "n", "n", " ">>} : SetNewStaffName(text)
    \/ HandleAddStaff
    \/ \E index \in 1..MaxStaff + 1 : HandleRemoveStaff(index)
    \/ \E index \in 1..MaxStaff + 1 :
           HandleUpdateStaff(index, "tone_of_voice", "Trendig/Peppig")
    \/ HandleSubmit

SpecSubEditors == InitManagers /\ [][NextSubEditors]_vars

----------------------------------------------------------------------------
(* Views that fetch when a selection changes: CustomerFeedbackDashboard    *)
(* (filter), SMSConversationViewer (selected customer) and                 *)
(* AnalyticsDashboard (time range).  A response body is identified by the  *)
(* selection its request was made for.                                     *)

Filters == {"all", "negative"}
Customers == {"c1", "c2"}
TimeRanges == {"6", "12"}

\* The body of a successful response to a view's request
DataOf(r) == [of |-> r.payload.param]

\* CustomerFeedbackDashboard.loadFeedback up to its await
LoadFeedback(filter) ==
    AxiosRequest("loadFeedback", "GET", "/api/feedback/:businessId", [param |-> filter],
                 localStorage)

\* CustomerFeedbackDashboard: the effect's first run, on mount
MountFeedback ==
    /\ ~views.feedback.mounted
    /\ HasRoom(1)
    /\ views' = [views EXCEPT !.feedback.mounted = TRUE, !.feedback.loading = TRUE]
    /\ requests' = Append(requests, LoadFeedback(views.feedback.filter))
    /\ UNCHANGED <<sessionVars, alerts, displayed, server, prompts, banner, retention,
                   flags, formVars>>

\* setFilter(type) from a filter button, which is rendered when loading is
\* false and lies under the modal's overlay; the effect on
\* [businessId, filter] runs loadFeedback when the filter has changed
SetFilter(type) ==
    /\ views.feedback.mounted
    /\ ~views.feedback.loading
    /\ ~views.feedback.showDetailModal
    /\ type # views.feedback.filter
    /\ HasRoom(1)
    /\ views' = [views EXCEPT !.feedback.filter = type, !.feedback.loading = TRUE]
    /\ requests' = Append(requests, LoadFeedback(type))
    /\ UNCHANGED <<sessionVars, alerts, displayed, server, prompts, banner, retention,
                   flags, formVars>>

\* The body of GET /api/feedback/:businessId?type=filter
ServerFeedback(filter) ==
    [id \in {f \in FeedbackIds : filter = "all" \/ FeedbackType[f] = filter} |->
        views.feedback.stored[id]]

\* loadFeedback after its await: setFeedback(response.data || []) on
\* success, the failure only logged; setLoading(false) either way
LoadFeedbackResponse(i, st) ==
    /\ Pending(i, "loadFeedback")
    /\ requests' = Settle(i, st)
    /\ localStorage' = ResponseInterceptorStorage(requests[i], st, localStorage)
    /\ loginNavs' = loginNavs + ResponseInterceptorNavs(requests[i], st)
    /\ views' = [views EXCEPT
           !.feedback.data = IF st = "200" THEN DataOf(requests[i]) ELSE @,
           !.feedback.items = IF st = "200" THEN ServerFeedback(requests[i].payload.param)
                              ELSE @,
           !.feedback.loading = FALSE]
    /\ UNCHANGED <<user, authPc, loginPc, dashPc, alerts, displayed, server, prompts,
                   banner, retention, flags, formVars, logoutAt>>

FeedbackFrame ==
    <<sessionVars, requests, alerts, displayed, server, prompts, banner, retention,
      flags, formVars>>

\* The View button of a listed item: the item is copied into
\* selectedFeedback and its notes into the notes field
OpenDetailModal(id) ==
    /\ views.feedback.mounted
    /\ ~views.feedback.loading
    /\ ~views.feedback.showDetailModal
    /\ id \in DOMAIN views.feedback.items
    /\ views' = [views EXCEPT
           !.feedback.selectedFeedback = [id |-> id, status |-> views.feedback.items[id].status],
           !.feedback.notes = views.feedback.items[id].notes,
           !.feedback.showDetailModal = TRUE]
    /\ UNCHANGED FeedbackFrame

\* The modal's two close buttons
CloseDetailModal ==
    /\ views.feedback.showDetailModal
    /\ views' = [views EXCEPT !.feedback.showDetailModal = FALSE]
    /\ UNCHANGED FeedbackFrame

NotesInputs == {<<>>, <<"o", "k">>}

SetNotes(text) ==
    /\ views.feedback.showDetailModal
    /\ views' = [views EXCEPT !.feedback.notes = text]
    /\ UNCHANGED FeedbackFrame

\* The status buttons the modal renders for the selected item
StatusButtons(status) ==
    IF status = "new" THEN {"reviewed", "resolved", "dismissed"} ELSE {"new"}

\* handleStatusUpdate patching the list before the request is answered
HandleStatusUpdate_Optimistic(newStatus) ==
    /\ views.feedback.showDetailModal
    /\ ~views.feedback.updating
    /\ newStatus \in StatusButtons(views.feedback.selectedFeedback.status)
    /\ HasRoom(1)
    /\ LET id == views.feedback.selectedFeedback.id
       IN  /\ views' = [views EXCEPT
                  !.feedback.updating = TRUE,
                  !.feedback.items =
                      IF id \in DOMAIN @ THEN [@ EXCEPT ![id].status = newStatus] ELSE @]
           /\ requests' = Append(requests,
                  AxiosRequest("handleStatusUpdate", "PUT", "/api/feedback/:feedbackId",
                               [id |-> id, status |-> newStatus,
                                notes |-> views.feedback.notes],
                               localStorage))
    /\ UNCHANGED <<sessionVars, alerts, displayed, server, prompts, banner, retention,
                   flags, formVars>>

\* handleStatusUpdate(selectedFeedback.id, newStatus) from a status button,
\* up to its await: setUpdating(true) and the PUT with the status and notes
HandleStatusUpdate(newStatus) ==
    /\ views.feedback.showDetailModal
    /\ ~views.feedback.updating
    /\ newStatus \in StatusButtons(views.feedback.selectedFeedback.status)
    /\ HasRoom(1)
    /\ views' = [views EXCEPT !.feedback.updating = TRUE]
    /\ requests' = Append(requests,
           AxiosRequest("handleStatusUpdate", "PUT", "/api/feedback/:feedbackId",
                        [id |-> views.feedback.selectedFeedback.id, status |-> newStatus,
                         notes |-> views.feedback.notes],
                        localStorage))
    /\ UNCHANGED <<sessionVars, alerts, displayed, server, prompts, banner, retention,
                   flags, formVars>>

\* The item with the status and the notes of the request (notes || f.notes)
Updated(item, sent) ==
    [status |-> sent.status,
     notes |-> IF sent.notes # <<>> THEN sent.notes ELSE item.notes]

\* handleStatusUpdate after its await: the listed item is patched, the
\* modal closed and the notes cleared; a failure is only logged; finally
\* setUpdating(false)
StatusUpdateResponse(i, st) ==
    /\ Pending(i, "handleStatusUpdate")
    /\ requests' = Settle(i, st)
    /\ localStorage' = ResponseInterceptorStorage(requests[i], st, localStorage)
    /\ loginNavs' = loginNavs + ResponseInterceptorNavs(requests[i], st)
    /\ LET sent == requests[i].payload
       IN  views' = IF st = "200"
                    THEN [views EXCEPT
                            !.feedback.stored[sent.id] = Updated(@, sent),
                            !.feedback.items =
                                [id \in DOMAIN @ |->
                                    IF id = sent.id THEN Updated(@[id], sent) ELSE @[id]],
                            !.feedback.showDetailModal = FALSE,
                            !.feedback.notes = <<>>,
                            !.feedback.updating = FALSE]
                    ELSE [views EXCEPT !.feedback.updating = FALSE]
    /\ UNCHANGED <<user, authPc, loginPc, dashPc, logoutAt, alerts, displayed, server,
                   prompts, banner, retention, flags, formVars>>

\* SMSConversationViewer: setSelectedCustomer(customer) from the customer
\* list; the effect on [selectedCustomer] calls fetchMessages(customer.id),
\* a raw fetch with the stored token
SetSelectedCustomer(customer) ==
    /\ customer # views.conversation.selectedCustomer
    /\ HasRoom(1)
    /\ views' = [views EXCEPT !.conversation.selectedCustomer = customer]
    /\ requests' = Append(requests,
           NewRequest("fetchMessages", "fetch", "GET", "/sms/conversations/:customerId",
                      Bearer(localStorage["access_token"]), [param |-> customer]))
    /\ UNCHANGED <<sessionVars, alerts, displayed, server, prompts, banner, retention,
                   flags, formVars>>

\* FetchMessagesResponse dropping a response made for another customer
\* than the selected one
FetchMessagesResponse_DropsStale(i, st) ==
    /\ Pending(i, "fetchMessages")
    /\ requests' = Settle(i, st)
    /\ views' = [views EXCEPT
           !.conversation.data =
               IF st = "200" /\ requests[i].payload.param = views.conversation.selectedCustomer
               THEN DataOf(requests[i]) ELSE @]
    /\ UNCHANGED <<sessionVars, alerts, displayed, server, prompts, banner, retention,
                   flags, formVars>>

\* fetchMessages after its await: setMessages(data) when response.ok
FetchMessagesResponse(i, st) ==
    /\ Pending(i, "fetchMessages")
    /\ requests' = Settle(i, st)
    /\ views' = [views EXCEPT
           !.conversation.data = IF st = "200" THEN DataOf(requests[i]) ELSE @]
    /\ UNCHANGED <<sessionVars, alerts, displayed, server, prompts, banner, retention,
                   flags, formVars>>

\* AnalyticsDashboard.fetchAnalytics up to its await
FetchAnalytics(timeRange) ==
    AxiosRequest("fetchAnalytics", "GET", "/analytics/retention",
                 [param |-> timeRange], localStorage)

\* Bodies of a successful GET /api/businesses/ as the dashboard keeps them
BusinessLists == {<<>>, <<"r1", "r2">>}

\* AnalyticsDashboard: the mount effect, fetchBusinesses
MountAnalytics ==
    /\ ~views.analytics.mounted
    /\ HasRoom(2)
    /\ views' = [views EXCEPT !.analytics.mounted = TRUE]
    /\ requests' = Append(requests,
           AxiosRequest("AnalyticsDashboard.fetchBusinesses", "GET", "/api/businesses/",
                        NoPayload, localStorage))
    /\ UNCHANGED <<sessionVars, alerts, displayed, server, prompts, banner, retention,
                   flags, formVars>>

\* fetchBusinesses after its await: setBusinesses(response || []), a failure
\* only logged.  The effect on [businesses] selects the first business when
\* there is one and none is selected, and the effect on
\* [timeRange, selectedBusinessId] then runs fetchAnalytics
AnalyticsBusinessesResponse(i, st, list) ==
    /\ Pending(i, "AnalyticsDashboard.fetchBusinesses")
    /\ localStorage' = ResponseInterceptorStorage(requests[i], st, localStorage)
    /\ loginNavs' = loginNavs + ResponseInterceptorNavs(requests[i], st)
    /\ IF st = "200" /\ Len(list) > 0 /\ views.analytics.selectedBusinessId = NULL
       THEN /\ views' = [views EXCEPT !.analytics.businesses = list,
                                      !.analytics.selectedBusinessId = list[1],
                                      !.analytics.loading = TRUE]
            /\ requests' = Append(Settle(i, st), FetchAnalytics(views.analytics.timeRange))
       ELSE /\ views' = [views EXCEPT !.analytics.businesses = IF st = "200" THEN list
                                                               ELSE @]
            /\ requests' = Settle(i, st)
    /\ UNCHANGED <<user, authPc, loginPc, dashPc, logoutAt, alerts, displayed, server,
                   prompts, banner, retention, flags, formVars>>

\* The selects and the charts are rendered when loading is false and
\* analytics is not null
AnalyticsShown == ~views.analytics.loading /\ views.analytics.data # NoData

\* setSelectedBusinessId(e.target.value) from the business select; the
\* effect on [timeRange, selectedBusinessId] runs fetchAnalytics
SetSelectedBusinessId(id) ==
    /\ AnalyticsShown
    /\ \E k \in 1..Len(views.analytics.businesses) : views.analytics.businesses[k] = id
    /\ id # views.analytics.selectedBusinessId
    /\ HasRoom(1)
    /\ views' = [views EXCEPT !.analytics.selectedBusinessId = id,
                              !.analytics.loading = TRUE]
    /\ requests' = Append(requests, FetchAnalytics(views.analytics.timeRange))
    /\ UNCHANGED <<sessionVars, alerts, displayed, server, prompts, banner, retention,
                   flags, formVars>>

\* setTimeRange(Number(e.target.value)) from the period select
SetTimeRange(timeRange) ==
    /\ AnalyticsShown
    /\ timeRange # views.analytics.timeRange
    /\ HasRoom(1)
    /\ views' = [views EXCEPT !.analytics.timeRange = timeRange,
                              !.analytics.loading = TRUE]
    /\ requests' = Append(requests, FetchAnalytics(timeRange))
    /\ UNCHANGED <<sessionVars, alerts, displayed, server, prompts, banner, retention,
                   flags, formVars>>

\* The retry button of the panel shown when loading is false and analytics
\* is null: fetchAnalytics, which returns at once without a selected business
RetryFetchAnalytics ==
    /\ ~views.analytics.loading
    /\ views.analytics.data = NoData
    /\ views.analytics.selectedBusinessId # NULL
    /\ HasRoom(1)
    /\ views' = [views EXCEPT !.analytics.loading = TRUE]
    /\ requests' = Append(requests, FetchAnalytics(views.analytics.timeRange))
    /\ UNCHANGED <<sessionVars, alerts, displayed, server, prompts, banner, retention,
                   flags, formVars>>

\* fetchAnalytics after its await: setAnalytics(response), or null on a
\* failure; setLoading(false) either way
FetchAnalyticsResponse(i, st) ==
    /\ Pending(i, "fetchAnalytics")
    /\ requests' = Settle(i, st)
    /\ localStorage' = ResponseInterceptorStorage(requests[i], st, localStorage)
    /\ loginNavs' = loginNavs + ResponseInterceptorNavs(requests[i], st)
    /\ views' = [views EXCEPT
           !.analytics.data = IF st = "200" THEN DataOf(requests[i]) ELSE NoData,
           !.analytics.loading = FALSE]
    /\ UNCHANGED <<user, authPc, loginPc, dashPc, alerts, displayed, server, prompts,
                   banner, retention, flags, formVars, logoutAt>>

NextAnalytics ==
    \/ MountAnalytics
    \/ \E i \in 1..MaxRequests + 1, st \in SaveStatuses, list \in BusinessLists :
          AnalyticsBusinessesResponse(i, st, list)
    \/ \E id \in Ids : SetSelectedBusinessId(id)
    \/ \E timeRange \in TimeRanges : SetTimeRange(timeRange)
    \/ RetryFetchAnalytics
    \/ \E i \in 1..MaxRequests + 1, st \in SaveStatuses : FetchAnalyticsResponse(i, st)

NextViews ==
    \/ MountFeedback
    \/ \E type \in Filters : SetFilter(type)
    \/ \E i \in 1..MaxRequests + 1, st \in SaveStatuses : LoadFeedbackResponse(i, st)
    \/ \E customer \in Customers : SetSelectedCustomer(customer)
    \/ \E i \in 1..MaxRequests + 1, st \in SaveStatuses : FetchMessagesResponse(i, st)
    \/ NextAnalytics

\* A signed-in user, no view mounted yet
InitViews == InitIntervals

SpecViews == InitViews /\ [][NextViews]_vars

\* The views with their scheduling: React runs the analytics mount effect,
\* and the axios instance gives every request a 10 s timeout, so each call
\* the analytics dashboard awaits settles
SpecViewsLive ==
    /\ SpecViews
    /\ WF_vars(MountAnalytics)
    /\ WF_vars(\E i \in 1..MaxRequests + 1, st \in SaveStatuses, list \in BusinessLists :
                   AnalyticsBusinessesResponse(i, st, list))
    /\ WF_vars(\E i \in 1..MaxRequests + 1, st \in SaveStatuses :
                   FetchAnalyticsResponse(i, st))

\* The feedback dashboard with its detail modal
NextFeedback ==
    \/ MountFeedback
    \/ \E type \in Filters : SetFilter(type)
    \/ \E i \in 1..MaxRequests + 1, st \in SaveStatuses : LoadFeedbackResponse(i, st)
    \/ \E id \in FeedbackIds : OpenDetailModal(id)
    \/ CloseDetailModal
    \/ \E text \in NotesInputs : SetNotes(text)
    \/ \E newStatus \in {"new", "reviewed", "resolved", "dismissed"} :
          HandleStatusUpdate(newStatus)
    \/ \E i \in 1..MaxRequests + 1, st \in SaveStatuses : StatusUpdateResponse(i, st)

SpecFeedback == InitViews /\ [][NextFeedback]_vars

----------------------------------------------------------------------------
(* SystemHealth: one fetch on mount and one per tick of a 30 s interval    *)
(* timer that the effect's cleanup clears.                                 *)

HealthPeriod == 30000

FetchHealthData ==
    NewRequest("fetchHealthData", "fetch", "GET", "/health/detailed",
               Bearer(localStorage["access_token"]), NoPayload)

\* The effect: fetchHealthData(); setInterval(fetchHealthData, 30000)
MountHealth ==
    /\ ~views.health.mounted
    /\ HasRoom(1)
    /\ views' = [views EXCEPT !.health.mounted = TRUE, !.health.interval = HealthPeriod]
    /\ requests' = Append(requests, FetchHealthData)
    /\ UNCHANGED <<sessionVars, alerts, displayed, server, prompts, banner, retention,
                   flags, formVars>>

\* The timer fires: fetchHealthData()
HealthTick ==
    /\ views.health.interval # 0
    /\ HasRoom(1)
    /\ views' = [views EXCEPT !.health.ticks = @ + 1]
    /\ requests' = Append(requests, FetchHealthData)
    /\ UNCHANGED <<sessionVars, alerts, displayed, server, prompts, banner, retention,
                   flags, formVars>>

\* HealthResponse doubling the timer's delay after a failed fetch
HealthResponse_BacksOff(i, st) ==
    /\ Pending(i, "fetchHealthData")
    /\ requests' = Settle(i, st)
    /\ views' = [views EXCEPT
           !.health.data = IF st = "200" THEN [of |-> "health"] ELSE @,
           !.health.error = IF st = "200" THEN NULL
                            ELSE IF st = "neterr" THEN "Failed to fetch"
                            ELSE "Failed to fetch health data",
           !.health.interval = IF st = "200" \/ @ = 0 THEN @ ELSE 2 * @,
           !.health.loading = FALSE]
    /\ UNCHANGED <<sessionVars, alerts, displayed, server, prompts, banner, retention,
                   flags, formVars>>

\* fetchHealthData after its await: the data and no error when response.ok,
\* else the error message; the timer is not touched
HealthResponse(i, st) ==
    /\ Pending(i, "fetchHealthData")
    /\ requests' = Settle(i, st)
    /\ views' = [views EXCEPT
           !.health.data = IF st = "200" THEN [of |-> "health"] ELSE @,
           !.health.error = IF st = "200" THEN NULL
                            ELSE IF st = "neterr" THEN "Failed to fetch"
                            ELSE "Failed to fetch health data",
           !.health.loading = FALSE]
    /\ UNCHANGED <<sessionVars, alerts, displayed, server, prompts, banner, retention,
                   flags, formVars>>

\* The effect's cleanup: clearInterval(interval)
UnmountHealth ==
    /\ views.health.mounted
    /\ views' = [views EXCEPT !.health.mounted = FALSE, !.health.interval = 0]
    /\ UNCHANGED <<sessionVars, requests, alerts, displayed, server, prompts, banner,
                   retention, flags, formVars>>

NextHealth ==
    \/ MountHealth
    \/ HealthTick
    \/ \E i \in 1..MaxRequests + 1, st \in Statuses : HealthResponse(i, st)
    \/ UnmountHealth

SpecHealth == InitViews /\ [][NextHealth]_vars

----------------------------------------------------------------------------
(* SmsSender: customer selection and the bulk send                          *)

\* The customers GET /api/businesses/:id/customers answers with
LoadedCustomers ==
    <<[id |-> "c1", name |-> <<"S", "a", "m">>, phone_number |-> <<"0", "7">>],
      [id |-> "c2", name |-> <<"M", "o">>, phone_number |-> <<"0", "8">>]>>

MessageInputs == {<<>>, <<" ">>, <<"o", "k", " ">>}
SearchInputs == {<<>>, <<"s">>}

\* String.prototype.includes
Includes(s, t) ==
    \E k \in 0..(Len(s) - Len(t)) : SubSeq(s, k + 1, k + Len(t)) = t

\* Array.prototype.includes / filter / map on sequences
Member(seq, x) == \E k \in 1..Len(seq) : seq[k] = x

RECURSIVE Without(_, _)
Without(seq, x) ==
    IF seq = <<>> THEN <<>>
    ELSE IF Head(seq) = x THEN Without(Tail(seq), x)
    ELSE <<Head(seq)>> \o Without(Tail(seq), x)

RECURSIVE FilterBySearch(_, _)
FilterBySearch(customers, term) ==
    IF customers = <<>> THEN <<>>
    ELSE LET c == Head(customers)
             rest == FilterBySearch(Tail(customers), term)
         IN  IF \/ Includes(ToLowerCase(c.name), ToLowerCase(term))
                \/ Includes(c.phone_number, term)
             THEN <<c>> \o rest ELSE rest

FilteredCustomers == FilterBySearch(views.sms.customers, views.sms.searchTerm)

\* The mount effect: fetchCustomers
MountSmsSender ==
    /\ ~views.sms.mounted
    /\ HasRoom(1)
    /\ views' = [views EXCEPT !.sms.mounted = TRUE]
    /\ requests' = Append(requests,
           AxiosRequest("SmsSender.fetchCustomers", "GET", "/api/businesses/:id/customers",
                        NoPayload, localStorage))
    /\ UNCHANGED <<sessionVars, alerts, displayed, server, prompts, banner, retention,
                   flags, formVars>>

\* fetchCustomers after the await: setCustomers(data || []), a failure is logged
SmsCustomersResponse(i, st) ==
    /\ Pending(i, "SmsSender.fetchCustomers")
    /\ requests' = Settle(i, st)
    /\ localStorage' = ResponseInterceptorStorage(requests[i], st, localStorage)
    /\ loginNavs' = loginNavs + ResponseInterceptorNavs(requests[i], st)
    /\ views' = IF st = "200" THEN [views EXCEPT !.sms.customers = LoadedCustomers]
                ELSE views
    /\ UNCHANGED <<user, authPc, loginPc, dashPc, logoutAt, alerts, displayed, server,
                   prompts, banner, retention, flags, formVars>>

SmsFrame ==
    <<sessionVars, requests, alerts, displayed, server, prompts, banner, retention,
      flags, formVars>>

SetSearchTerm(term) ==
    /\ views.sms.mounted
    /\ views' = [views EXCEPT !.sms.searchTerm = term]
    /\ UNCHANGED SmsFrame

SetMessage(text) ==
    /\ views.sms.mounted
    /\ views' = [views EXCEPT !.sms.message = text]
    /\ UNCHANGED SmsFrame

\* The checkbox of a listed customer
HandleCustomerToggle(customerId) ==
    /\ \E k \in 1..Len(FilteredCustomers) : FilteredCustomers[k].id = customerId
    /\ views' = [views EXCEPT !.sms.selectedCustomers =
                     IF Member(@, customerId) THEN Without(@, customerId)
                     ELSE Append(@, customerId)]
    /\ UNCHANGED SmsFrame

HandleSelectAll ==
    /\ views.sms.mounted
    /\ views' = [views EXCEPT !.sms.selectedCustomers =
                     IF Len(@) = Len(FilteredCustomers) THEN <<>>
                     ELSE [k \in 1..Len(FilteredCustomers) |-> FilteredCustomers[k].id]]
    /\ UNCHANGED SmsFrame

\* disabled={loading || selectedCustomers.length === 0 || !message.trim()}
SendDisabled ==
    \/ views.sms.loading
    \/ Len(views.sms.selectedCustomers) = 0
    \/ Trim(views.sms.message) = <<>>

BulkSms(customerIds, message) ==
    [kind |-> "bulk-sms", customer_ids |-> customerIds, message |-> message]

\* handleSendSms sending the message as typed
HandleSendSms_Untrimmed ==
    /\ views.sms.mounted
    /\ ~views.sms.loading
    /\ views.sms.selectedCustomers # <<>>
    /\ HasRoom(1)
    /\ views' = [views EXCEPT !.sms.loading = TRUE, !.sms.sendResult = NULL]
    /\ requests' = Append(requests,
           AxiosRequest("handleSendSms", "POST", "/api/sms/send-bulk",
                        BulkSms(views.sms.selectedCustomers, views.sms.message),
                        localStorage))
    /\ UNCHANGED <<sessionVars, alerts, displayed, server, prompts, banner, retention,
                   flags, formVars>>

\* handleSendSms up to its await: the two checks with their alerts, then
\* setLoading(true), setSendResult(null) and the request
HandleSendSms ==
    /\ views.sms.mounted
    /\ ~SendDisabled
    /\ IF Len(views.sms.selectedCustomers) = 0
       THEN /\ alerts' = Append(alerts, Alert("Please select at least one customer"))
            /\ UNCHANGED <<views, requests>>
       ELSE IF Trim(views.sms.message) = <<>>
       THEN /\ alerts' = Append(alerts, Alert("Please enter a message"))
            /\ UNCHANGED <<views, requests>>
       ELSE /\ HasRoom(1)
            /\ views' = [views EXCEPT !.sms.loading = TRUE, !.sms.sendResult = NULL]
            /\ requests' = Append(requests,
                   AxiosRequest("handleSendSms", "POST", "/api/sms/send-bulk",
                                BulkSms(views.sms.selectedCustomers,
                                        Trim(views.sms.message)),
                                localStorage))
            /\ UNCHANGED alerts
    /\ UNCHANGED <<sessionVars, displayed, server, prompts, banner, retention, flags,
                   formVars>>

\* handleSendSms after the await: the result is kept and the selection and
\* message are cleared, or the failure is alerted; finally setLoading(false)
SendBulkSmsResponse(i, st) ==
    /\ Pending(i, "handleSendSms")
    /\ requests' = Settle(i, st)
    /\ localStorage' = ResponseInterceptorStorage(requests[i], st, localStorage)
    /\ loginNavs' = loginNavs + ResponseInterceptorNavs(requests[i], st)
    /\ IF st = "200"
       THEN /\ views' = [views EXCEPT !.sms.sendResult = "sent",
                                      !.sms.selectedCustomers = <<>>,
                                      !.sms.message = <<>>,
                                      !.sms.loading = FALSE]
            /\ UNCHANGED alerts
       ELSE /\ views' = [views EXCEPT !.sms.loading = FALSE]
            /\ alerts' = Append(alerts, Alert("Failed to send SMS"))
    /\ UNCHANGED <<user, authPc, loginPc, dashPc, logoutAt, displayed, server, prompts,
                   banner, retention, flags, formVars>>

NextSms ==
    \/ MountSmsSender
    \/ \E i \in 1..MaxRequests + 1, st \in SaveStatuses : SmsCustomersResponse(i, st)
    \/ \E term \in SearchInputs : SetSearchTerm(term)
    \/ \E text \in MessageInputs : SetMessage(text)
    \/ \E customerId \in {"c1", "c2"} : HandleCustomerToggle(customerId)
    \/ HandleSelectAll
    \/ HandleSendSms
    \/ \E i \in 1..MaxRequests + 1, st \in SaveStatuses : SendBulkSmsResponse(i, st)

SpecSms == InitViews /\ [][NextSms]_vars

----------------------------------------------------------------------------
(* generateSlug over every business name of a bounded length               *)

NameChars == {"M", "a", "1", " ", "-", "_"}
BusinessNames == UNION {[1..n -> NameChars] : n \in 0..MaxNameLen}

\* The add-business form of either variant with a name typed into it
InitSlug ==
    /\ LoggedIn("t1", "user")
    /\ requests = <<>>
    /\ alerts = <<>>
    /\ server = [s \in Screens |-> {"r1"}]
    /\ displayed = [s \in Screens |-> {"r1"}]
    /\ prompts = <<>>
    /\ banner = [error |-> NULL, success |-> NULL]
    /\ flags = [f \in FlagNames |-> FALSE]
    /\ ui = [showForm |-> TRUE, editingBusiness |-> NULL, activeTab |-> "overview"]
    /\ onSubmitCalls = <<>>
    /\ \E variant \in Variants, name \in BusinessNames :
          form = [open |-> TRUE, variant |-> variant, edits |-> 1,
                  parent |-> "BusinessManagement", initial |-> NoInitialData,
                  data |-> [InitialFormData(variant, NoInitialData) EXCEPT !.name = name],
                  errors |-> <<>>, file |-> NULL, touched |-> {"name"},
                  serviceManager |-> [newServiceName |-> <<>>,
                                      newServiceInterval |-> Num(2),
                                      showTemplates |-> FALSE],
                  staffManagement |-> [newStaffName |-> <<>>, newStaffTone |-> "Proffsig"]]
    /\ RetentionIdle
    /\ ViewsIdle

NextSlug ==
    \/ GenerateSlug
    \/ HandleCancel

SpecSlug == InitSlug /\ [][NextSlug]_vars

----------------------------------------------------------------------------
(* Claims *)

\* C1: every 401 response to a call of the frontend removes 'access_token'
\* and 'user' from storage and assigns location.href = '/login' exactly once.
C1_Every401ClearsAndRedirectsOnce ==
    [][\A i \in 1..Len(requests) :
          (requests[i].status = "pending" /\ requests'[i].status = "401")
              => /\ localStorage'["access_token"] = NULL
                 /\ localStorage'["user"] = NULL
                 /\ loginNavs' = loginNavs + 1]_vars

\* C2: every request sent while a token is stored under 'access_token'
\* carries the header Authorization: Bearer <that token>.
C2_EveryRequestCarriesStoredToken ==
    [][\A i \in (Len(requests) + 1)..Len(requests') :
          localStorage'["access_token"] # NULL
              => requests'[i].auth = Bearer(localStorage'["access_token"])]_vars

DeletePath(screen) ==
    CASE screen = "businesses" -> "/api/businesses/:id"
      [] screen = "users" -> "/api/admin/users/:id"
      [] screen = "intervals" -> "/businesses/service-intervals/:id"

\* The DELETE requests of a request log, in order: path and record id.
Deletes(rs) ==
    LET sel == SelectSeq(rs, LAMBDA r : r.method = "DELETE")
    IN  [k \in 1..Len(sel) |-> [path |-> sel[k].path, id |-> sel[k].payload.id]]

\* C3: answering a delete prompt with "no" issues no DELETE request and
\* leaves the displayed lists unchanged; answering "yes" issues exactly one
\* DELETE request, for the chosen record; no other step issues a DELETE.
C3_DeleteGatedByConfirm ==
    [][IF Len(prompts') = Len(prompts) + 1
       THEN LET p == prompts'[Len(prompts')]
            IN  IF p.confirmed
                THEN Deletes(requests') =
                         Append(Deletes(requests), [path |-> DeletePath(p.screen), id |-> p.id])
                ELSE /\ Deletes(requests') = Deletes(requests)
                     /\ displayed' = displayed
       ELSE Deletes(requests') = Deletes(requests)]_vars

C3_Witness ==
    /\ \E k \in 1..Len(prompts) : prompts[k].confirmed
    /\ \E k \in 1..Len(prompts) : ~prompts[k].confirmed
    /\ Len(Deletes(requests)) = 1

\* A step in which handleSubmit ran and changed something: the form stays
\* mounted with the same data, file and change count.
SubmitAttempt ==
    /\ form.open
    /\ form'.open
    /\ form'.data = form.data
    /\ form'.file = form.file
    /\ form'.edits = form.edits
    /\ (form'.errors # form.errors \/ onSubmitCalls' # onSubmitCalls)

\* C4: a submission whose slug holds an uppercase letter, a space or any
\* other character outside [a-z0-9-] is rejected: onSubmit is not called and
\* the slug field gets an error.
C4_BadSlugRejected ==
    [][SubmitAttempt /\ ~SlugFormatOk(form.data.slug)
          => /\ onSubmitCalls' = onSubmitCalls
             /\ "slug" \in DOMAIN form'.errors]_vars

\* C5: a submission whose inactive_customer_days is outside [30, 365] is
\* blocked: onSubmit is not called and the inactive_customer_days field gets
\* an error.
C5_DaysOutOfRangeBlocked ==
    [][SubmitAttempt /\ OutOfRange(form.data.inactive_customer_days, 30, 365)
          => /\ onSubmitCalls' = onSubmitCalls
             /\ "inactive_customer_days" \in DOMAIN form'.errors]_vars

IsSave(r) == r.path \in {"/api/businesses/", "/api/businesses/:id"}
                 /\ r.method \in {"POST", "PUT"}
Saves(rs) == SelectSeq(rs, IsSave)

\* C6: when validate() finds an error, onSubmit is not called, no create or
\* update request goes out and every offending field has an entry in the
\* errors map; onSubmit is called, and a create or update request sent, only
\* by a submit whose form data has no validation error at that time.
C6_ValidationErrorsBlockSubmit ==
    [][/\ SubmitAttempt =>
             LET offending == DOMAIN Validate(form.variant, form.data)
             IN  /\ \A f \in offending : /\ f \in DOMAIN form'.errors
                                         /\ form'.errors[f] # UNDEFINED
                 /\ offending # {} => /\ onSubmitCalls' = onSubmitCalls
                                      /\ requests' = requests
       /\ onSubmitCalls' # onSubmitCalls =>
             /\ form.open
             /\ DOMAIN Validate(form.variant, form.data) = {}
       /\ Saves(requests') # Saves(requests) => onSubmitCalls' # onSubmitCalls]_vars

\* A submit was blocked with the name and slug errors showing, nothing was
\* handed to onSubmit and nothing was sent
C6_Witness ==
    /\ form.open
    /\ DOMAIN form.errors # {}
    /\ \A f \in DOMAIN form.errors : form.errors[f] # UNDEFINED
    /\ DOMAIN form.errors = DOMAIN Validate(form.variant, form.data)
    /\ form.edits > 0
    /\ onSubmitCalls = <<>>
    /\ requests = <<>>

IsCreate(r) == r.method = "POST" /\ r.path = "/api/businesses/"
Creates(rs) == SelectSeq(rs, IsCreate)
CreatePayloads(rs) == [k \in 1..Len(Creates(rs)) |-> Creates(rs)[k].payload.data]

\* C8: every valid new-business submission sends exactly one POST
\* /api/businesses/ whose payload is the submitted data: the name and slug,
\* and the form's defaults where only name and slug were entered.  No other
\* step sends such a POST.
C8_OneCreatePerSubmission ==
    [][IF onSubmitCalls' # onSubmitCalls /\ ui.editingBusiness = NULL
       THEN /\ CreatePayloads(requests') = Append(CreatePayloads(requests), form.data)
            /\ form.touched \subseteq {"name", "slug"} =>
                  \A f \in FormFields(form.variant) \ {"name", "slug"} :
                      requests'[Len(requests')].payload.data[f]
                          = DefaultFormData(form.variant)[f]
       ELSE CreatePayloads(requests') = CreatePayloads(requests)]_vars

\* One submission of "My S" / "my-s" has been created and its whole
\* follow-up has finished with a single POST in the log
C8_Witness ==
    /\ Len(onSubmitCalls) = 1
    /\ Len(Creates(requests)) = 1
    /\ Creates(requests)[1].status = "200"
    /\ Creates(requests)[1].payload.data.name = <<"M", "y", " ", "S">>
    /\ Creates(requests)[1].payload.data.slug = <<"m", "y", "-", "s">>
    /\ \A i \in 1..Len(requests) : requests[i].status # "pending"

IsImport(r) == r.path = "/api/pricelist/import"
Imports(rs) == SelectSeq(rs, IsImport)

CreateWithFileSettles(i) ==
    /\ IsCreate(requests[i])
    /\ requests[i].payload.priceListFile # NULL
    /\ requests[i].status = "pending"
    /\ requests'[i].status # "pending"

\* C9: when a new-business submission has a price-list file attached, the
\* success of its create call is followed by exactly one import POST carrying
\* the file and the id the create call returned; a failed create call is
\* followed by none, and no other step sends an import.
C9_OneImportAfterCreate ==
    [][/\ \A i \in 1..Len(requests) :
             CreateWithFileSettles(i) =>
                IF requests'[i].status = "200"
                THEN /\ Len(Imports(requests')) = Len(Imports(requests)) + 1
                     /\ LET r == requests'[Len(requests')]
                        IN  /\ IsImport(r)
                            /\ r.method = "POST"
                            /\ r.payload.file = requests[i].payload.priceListFile
                            /\ {r.payload.business_id}
                                   = server'["businesses"] \ server["businesses"]
                ELSE Imports(requests') = Imports(requests)
       /\ (\A i \in 1..Len(requests) : ~CreateWithFileSettles(i))
             => Imports(requests') = Imports(requests)]_vars

ImportFails(i) ==
    /\ IsImport(requests[i])
    /\ requests[i].status = "pending"
    /\ requests'[i].status \notin {"pending", "200"}

RefreshSettles(i) ==
    /\ requests[i].caller = "handleFormSubmit.fetchBusinesses"
    /\ requests[i].status = "pending"
    /\ requests'[i].status # "pending"

\* C10: when the import fails after the business was created, the only
\* request that follows is the GET that re-fetches the list (nothing deletes
\* the business), the user gets the import warning and not the "Failed to
\* save business" alert, and when the re-fetch returns the form is closed.
C10_ImportFailureKeepsBusiness ==
    [][\A i \in 1..Len(requests) :
          /\ ImportFails(i) =>
                /\ Len(requests') = Len(requests) + 1
                /\ requests'[Len(requests')].method = "GET"
                /\ requests'[Len(requests')].path = "/api/businesses/"
                /\ \A k \in 1..Len(requests') : requests'[k].method # "DELETE"
                /\ server' = server
                /\ Len(alerts') = Len(alerts) + 1
                /\ alerts'[Len(alerts')].text
                      = "Business created successfully! However, price list import failed: "
                /\ alerts'[Len(alerts')] # SaveFailedAlert
          /\ RefreshSettles(i) =>
                /\ ~ui'.showForm
                /\ ~form'.open
                /\ ~flags'["BusinessManagement.loading"]]_vars

\* The import failed, the warning is showing, the list was re-fetched with
\* the created business in it and the form is closed
C10_Witness ==
    /\ \E i \in 1..Len(requests) :
          IsImport(requests[i]) /\ requests[i].status \in {"401", "500"}
    /\ \E i \in 1..Len(requests) :
          /\ requests[i].caller = "handleFormSubmit.fetchBusinesses"
          /\ requests[i].status = "200"
    /\ alerts = <<ImportFailedAlert>>
    /\ displayed["businesses"] = server["businesses"]
    /\ Cardinality(server["businesses"]) = 2
    /\ ~form.open
    /\ ~ui.showForm

IntervalWriters == {"handleIntervalChange", "handleAddService", "saveSettings"}

\* The interval_months values a request carries
IntervalMonthsOf(r) ==
    IF r.caller = "saveSettings"
    THEN {r.payload.service_intervals[n] : n \in DOMAIN r.payload.service_intervals}
    ELSE {r.payload.interval_months}

\* A number inside [0.5, 12]; an emptied input (NaN, sent as null) is not
\* counted as a value.
InIntervalRange(v) == IsNaN(v) \/ (v >= Half /\ v <= Num(12))

\* C7: no request that creates or updates a service retention interval
\* carries an interval_months outside [0.5, 12], and the intervals held in the
\* editors' state stay inside that range.
C7_NoIntervalWriteOutOfRange ==
    /\ \A i \in 1..Len(requests) :
          requests[i].caller \in IntervalWriters =>
              \A v \in IntervalMonthsOf(requests[i]) : InIntervalRange(v)
    /\ \A n \in DOMAIN retention.intervals : InIntervalRange(retention.intervals[n])
    /\ \A n \in DOMAIN retention.serviceIntervals :
          InIntervalRange(retention.serviceIntervals[n])

\* The form still holds what its useState initialiser made of the business
\* it was mounted with: no input event and no generated slug since the mount
Unedited(b) ==
    /\ form.open
    /\ form.initial = b
    /\ form.touched = {}
    /\ form.file = NULL
    /\ form.data = InitialFormData(form.variant, b)

\* C11: for every business object the list holds, mounting the form with it
\* and submitting without an edit sends an update whose payload has, for
\* every editable field, the value the object had: nothing is replaced by a
\* default, dropped or coerced.
C11_LoadSubmitRoundTrip ==
    [][\A b \in BusinessObjects :
          Unedited(b) /\ onSubmitCalls' # onSubmitCalls
             => LET r == requests'[Len(requests')]
                IN  /\ r.method = "PUT"
                    /\ \A f \in FormFields(form.variant) : r.payload.data[f] = b[f]]_vars

IsWrite(r) == r.method \in {"POST", "PUT", "DELETE"}
IsFetch(r) == r.method = "GET"

\* The step in which request i gets its response with the given outcome
Answered(i, ok) ==
    /\ requests[i].status = "pending"
    /\ requests'[i].status # "pending"
    /\ (requests'[i].status = "200") = ok

\* C12: on the service-interval screen every successful create or update is
\* followed at once by a fetch of the whole collection, and the list held
\* by the screen changes only when the response of such a fetch arrives: it
\* is never patched in place.
C12_RefetchNeverPatch ==
    [][/\ \A i \in 1..Len(requests) :
              IsWrite(requests[i]) /\ Answered(i, TRUE)
                 => /\ Len(requests') = Len(requests) + 1
                    /\ IsFetch(requests'[Len(requests')])
       /\ retention'.intervals # retention.intervals
              => \E i \in 1..Len(requests) :
                     IsFetch(requests[i]) /\ requests[i].status = "pending"
                        /\ requests'[i].status # "pending"]_vars

\* A step of ServiceManager or StaffManagement: the form stays mounted and
\* the mapping, the staff list or a sub-editor's own inputs change
SubEditorStep ==
    /\ form.open
    /\ form'.open
    /\ \/ form'.data.service_intervals # form.data.service_intervals
       \/ form'.data.staff_members # form.data.staff_members
       \/ form'.serviceManager # form.serviceManager
       \/ form'.staffManagement # form.staffManagement

\* C13: an operation of ServiceManager or StaffManagement sends no request
\* and changes nothing but the form's service_intervals / staff_members and
\* the sub-editor's own inputs; a request that carries service_intervals and
\* staff_members is sent only by a submit of the form, with the values the
\* form holds at that moment.
C13_SubEditorsOnlyCallOnChange ==
    [][/\ SubEditorStep =>
             /\ requests' = requests
             /\ onSubmitCalls' = onSubmitCalls
             /\ [form' EXCEPT !.data.service_intervals = form.data.service_intervals,
                              !.data.staff_members = form.data.staff_members,
                              !.serviceManager = form.serviceManager,
                              !.staffManagement = form.staffManagement] = form
       /\ Len(requests') > Len(requests) =>
             LET r == requests'[Len(requests')]
             IN  /\ Len(onSubmitCalls') = Len(onSubmitCalls) + 1
                 /\ r.payload.data.service_intervals = form.data.service_intervals
                 /\ r.payload.data.staff_members = form.data.staff_members]_vars

\* A service taken from a template and a staff member were added to the
\* edited business, and the one request in the log is the submit's PUT
\* carrying both
C13_Witness ==
    /\ Len(requests) = 1
    /\ requests[1].method = "PUT"
    /\ Len(onSubmitCalls) = 1
    /\ Cardinality(DOMAIN requests[1].payload.data.service_intervals) = 2
    /\ <<"U", "p", "p", "s", "a", "t", "t", "n", "i", "n", "g">>
           \in DOMAIN requests[1].payload.data.service_intervals
    /\ Len(requests[1].payload.data.staff_members) = 1
    /\ requests[1].payload.data.staff_members[1].name = <<"A", "n", "n">>

\* A step that changes the service_intervals mapping of the mounted form
ServicesChange ==
    /\ form.open
    /\ form'.open
    /\ form'.data.service_intervals # form.data.service_intervals

\* C14: the mapping's keys are the service names.  Adding a service whose
\* trimmed name is already a key replaces that entry's value with the new
\* one and leaves the number of entries and every other entry as they were;
\* a new name adds exactly one entry; removing a service deletes exactly
\* its key and leaves every other entry unchanged.
C14_ServiceKeysUniqueLastWriteWins ==
    [][ServicesChange =>
          LET old == form.data.service_intervals
              new == form'.data.service_intervals
              typed == Trim(form.serviceManager.newServiceName)
              added == [interval_months |-> form.serviceManager.newServiceInterval,
                        template |-> "standard"]
          IN  \/ /\ form'.serviceManager.newServiceName # form.serviceManager.newServiceName
                 /\ typed # <<>>
                 /\ DOMAIN new = DOMAIN old \cup {typed}
                 /\ new[typed] = added
                 /\ typed \in DOMAIN old => Cardinality(DOMAIN new) = Cardinality(DOMAIN old)
                 /\ \A n \in DOMAIN old \ {typed} : new[n] = old[n]
              \/ /\ form'.serviceManager.newServiceName = form.serviceManager.newServiceName
                 /\ \E n \in DOMAIN new \ DOMAIN old :
                       /\ DOMAIN new = DOMAIN old \cup {n}
                       /\ \A k \in DOMAIN old : new[k] = old[k]
              \/ /\ \E n \in DOMAIN old :
                       /\ DOMAIN new = DOMAIN old \ {n}
                       /\ \A k \in DOMAIN new : new[k] = old[k]
              \/ /\ DOMAIN new = DOMAIN old
                 /\ form'.serviceManager = form.serviceManager
                 /\ \E n \in DOMAIN old : \A k \in DOMAIN old \ {n} : new[k] = old[k]]_vars

\* "Klipp" was there with interval 2; "Klipp" or " Klipp " was typed with
\* interval 7 and added: still one entry, now with 7
C14_Witness ==
    /\ form.open
    /\ form.initial.id # NULL
    /\ DOMAIN form.data.service_intervals = {<<"K", "l", "i", "p", "p">>}
    /\ form.data.service_intervals[<<"K", "l", "i", "p", "p">>].interval_months = Num(7)
    /\ form.serviceManager.newServiceName = <<>>
    /\ form.serviceManager.newServiceInterval = Num(2)

\* C15: every interval_months in the form's service_intervals mapping lies
\* within [0.5, 12] after any sequence of ServiceManager operations that
\* starts from an empty mapping or from one whose intervals are in range.
C15_ServiceIntervalsWithinBounds ==
    SubEditorsShown =>
        \A n \in DOMAIN form.data.service_intervals :
            /\ form.data.service_intervals[n].interval_months >= Half
            /\ form.data.service_intervals[n].interval_months <= Num(12)

\* C16: after any sequence of StaffManagement add, update and remove
\* operations that starts from an empty list, every member of staff_members
\* has a tone_of_voice that is one of the six TONE_OPTIONS values.
C16_StaffTonesFromOptions ==
    SubEditorsShown =>
        /\ Cardinality(TONE_OPTIONS) = 6
        /\ \A k \in 1..Len(form.data.staff_members) :
               form.data.staff_members[k].tone_of_voice \in TONE_OPTIONS

\* Two members were added; the first one's tone was picked in the add row,
\* the second one's name and tone were changed in the list
C16_Witness ==
    /\ SubEditorsShown
    /\ Len(form.data.staff_members) = 2
    /\ form.data.staff_members[1].name = <<"A", "n", "n">>
    /\ form.data.staff_members[1].tone_of_voice = "Kaxig/Barberare"
    /\ form.data.staff_members[2].name = <<"A", "n", "n", " ">>
    /\ form.data.staff_members[2].tone_of_voice = "Spirituell/Eko"

SameCall(a, b) == a.method = b.method /\ a.path = b.path /\ a.payload = b.payload

CallsBy(rs, caller) == Len(SelectSeq(rs, LAMBDA r : r.caller = caller))

\* C17: a request that fails (non-2xx status or network error) is not sent
\* again: the step in which the failure arrives sends no request for the
\* same call, and every submission makes at most one attempt of each of its
\* calls (the save, the price-list import, the list refresh).
C17_NoAutomaticRetry ==
    [][/\ \A i \in 1..Len(requests) :
              Answered(i, FALSE)
                 => \A k \in Len(requests) + 1..Len(requests') :
                        ~SameCall(requests'[k], requests[i])
       /\ \A c \in {"handleFormSubmit", "handleFormSubmit.importPriceList",
                    "handleFormSubmit.fetchBusinesses", "handleBusinessSubmit"} :
              CallsBy(requests', c) <= Len(onSubmitCalls')]_vars

\* The create of the only submission failed with a 500: it was reported,
\* the form is still open for the user, and nothing was sent after it
C17_Witness ==
    /\ Len(onSubmitCalls) = 1
    /\ Len(requests) = 1
    /\ requests[1].caller = "handleFormSubmit"
    /\ requests[1].status = "500"
    /\ alerts = <<SaveFailedAlert>>
    /\ form.open
    /\ ~flags["BusinessManagement.loading"]

\* C18: when a create or update request sent for the user fails, the step
\* that gets the failure shows it: an alert, an inline banner or message,
\* or (for a 401) the redirect to the login page.
C18_SaveFailuresAreShown ==
    [][\A i \in 1..Len(requests) :
          IsWrite(requests[i]) /\ Answered(i, FALSE)
             => \/ alerts' # alerts
                \/ banner' # banner
                \/ retention'.message # retention.message
                \/ loginNavs' # loginNavs]_vars

ViewCallers == {"loadFeedback", "fetchMessages", "fetchAnalytics"}

\* The data a view shows
Shown(v, caller) ==
    CASE caller = "loadFeedback" -> v.feedback.data
      [] caller = "fetchMessages" -> v.conversation.data
      [] caller = "fetchAnalytics" -> v.analytics.data

\* C19: a successful response to a view's fetch is put on display when it
\* arrives, whether or not a later request of the same view is still in
\* flight or was answered before it: with two fetches racing, the view
\* shows the data of the response that arrived last.
C19_LastResponseWins ==
    [][\A i \in 1..Len(requests) :
          requests[i].caller \in ViewCallers /\ Answered(i, TRUE)
             => Shown(views', requests[i].caller) = DataOf(requests[i])]_vars

\* The selected customer went from c1 to c2 while the first fetch was in
\* flight; both fetches succeeded, the one for c1 last: the view shows the
\* messages of c1 under the selection c2
C19_Witness ==
    /\ Len(requests) = 2
    /\ \A i \in 1..2 : requests[i].caller = "fetchMessages" /\ requests[i].status = "200"
    /\ requests[1].payload.param = "c1"
    /\ requests[2].payload.param = "c2"
    /\ views.conversation.selectedCustomer = "c2"
    /\ views.conversation.data = [of |-> "c1"]

HealthFetches(rs) == Len(SelectSeq(rs, LAMBDA r : r.caller = "fetchHealthData"))

\* C20: mounting SystemHealth starts one health fetch and the 30 s timer;
\* every tick of the timer starts one more, whatever the earlier fetches
\* returned, and the timer's delay never changes; unmounting clears the
\* timer, and while the component is unmounted no health fetch is started.
C20_HealthPollingTiedToMount ==
    [][/\ ~views.health.mounted /\ views'.health.mounted
             => /\ HealthFetches(requests') = HealthFetches(requests) + 1
                /\ views'.health.interval = HealthPeriod
       /\ views'.health.ticks # views.health.ticks
             => /\ views.health.mounted
                /\ HealthFetches(requests') = HealthFetches(requests) + 1
       /\ HealthFetches(requests') # HealthFetches(requests)
             => views'.health.mounted
       /\ views'.health.mounted => views'.health.interval = HealthPeriod
       /\ ~views'.health.mounted => views'.health.interval = 0]_vars

\* The fetch made on mount failed, the timer fetched twice more, and the
\* component was unmounted with the last fetch still in flight
C20_Witness ==
    /\ HealthFetches(requests) = 3
    /\ requests[1].status = "500"
    /\ requests[2].status = "200"
    /\ requests[3].status = "pending"
    /\ views.health.ticks = 2
    /\ ~views.health.mounted
    /\ views.health.interval = 0

\* C21: after an import completes, the imported and duplicate counts shown to
\* the user are those of the result object the server returned, and the
\* errors are shown when the result lists any
C21_ShownCountsAreServerCounts ==
    [][\A i \in 1..MaxRequests, result \in ImportResults :
         ImportPriceListResponse(i, "200", result)
         => LET shownAlert == alerts'[Len(alerts')]
            IN  /\ shownAlert.imported = ToString(result.imported_count)
                /\ "duplicates" \in shownAlert.shown <=> result.duplicate_count > 0
                /\ "errors" \in shownAlert.shown <=> Len(result.errors) > 0]_vars

CallsOf(caller) == {i \in 1..Len(requests) : requests[i].caller = caller}

\* C22: at start-up, with no access_token stored no request is made and the
\* user stays null; with one stored, getCurrentUser is called once, a success
\* sets the user and stores it under 'user', a failure removes both stored
\* keys and sets no user; in every case loading eventually becomes false
C22_StartUp ==
    /\ [][/\ InitAuth /\ localStorage["access_token"] = NULL
              => requests' = requests /\ user' = NULL /\ authPc' = "ready"
          /\ InitAuth /\ localStorage["access_token"] # NULL
              => /\ Len(requests') = Len(requests) + 1
                 /\ requests'[Len(requests')].path = "/api/auth/me"
          /\ Cardinality(CallsOf("initAuth")') <= 1
          /\ \A i \in 1..MaxRequests, role \in Roles :
                InitAuthResponse(i, "200", role)
                => user' = role /\ localStorage'["user"] = role /\ authPc' = "ready"
          /\ \A i \in 1..MaxRequests, st \in Statuses \ {"200"}, role \in Roles :
                InitAuthResponse(i, st, role)
                => /\ localStorage'["access_token"] = NULL
                   /\ localStorage'["user"] = NULL
                   /\ user' = user
                   /\ CallsOf("login") = {} => user' = NULL
                   /\ authPc' = "ready"]_vars
    /\ <>(authPc = "ready")

C22_Witness ==
    /\ authPc = "ready"
    /\ \E i \in CallsOf("initAuth") : requests[i].status = "500"
    /\ localStorage["access_token"] = NULL
    /\ user = NULL

\* C23: login stores the access_token before it requests the current user;
\* when the login call or the getCurrentUser call after it fails, both
\* 'access_token' and 'user' are removed from storage, the error is rethrown
\* to the caller, and the attempt sets no user
C23_LoginFailureCleansUp ==
    [][/\ \A i \in 1..MaxRequests, token \in Tokens :
             LoginResponse(i, "200", token)
             => /\ localStorage'["access_token"] = token
                /\ Len(requests') = Len(requests) + 1
                /\ requests'[Len(requests')].caller = "login.me"
                /\ requests'[Len(requests')].auth = Bearer(token)
                /\ user' = user
       /\ \A i \in 1..MaxRequests, st \in Statuses \ {"200"}, token \in Tokens :
             LoginResponse(i, st, token)
             => /\ localStorage'["access_token"] = NULL
                /\ localStorage'["user"] = NULL
                /\ requests' = Settle(i, st)
                /\ loginPc' = "rejected"
                /\ user' = user
       /\ \A i \in 1..MaxRequests, st \in Statuses \ {"200"}, role \in Roles :
             LoginMeResponse(i, st, role)
             => /\ localStorage'["access_token"] = NULL
                /\ localStorage'["user"] = NULL
                /\ loginPc' = "rejected"
                /\ user' = user]_vars

C23_Witness ==
    /\ loginPc = "rejected"
    /\ \E i \in CallsOf("login.me") : requests[i].status = "500"
    /\ localStorage["access_token"] = NULL
    /\ localStorage["user"] = NULL
    /\ user = NULL

\* C24: in every reachable state of the auth context, isAuthenticated (the
\* user is not null) implies that an access_token is in storage
C24_AuthenticatedHasToken ==
    user # NULL => localStorage["access_token"] # NULL

\* A login call made after the last logout has succeeded
LoginSinceLogout ==
    \E i \in CallsOf("login") : i > logoutAt /\ requests[i].status = "200"

\* C25: logout removes 'access_token' and 'user' from storage and sets the
\* user to null; after it the user stays null and neither key is written
\* again until a login started after the logout succeeds, also when a
\* start-up or login request was in flight when logout was called
C25_LogoutIsFinal ==
    /\ [][Logout => /\ localStorage'["access_token"] = NULL
                    /\ localStorage'["user"] = NULL
                    /\ user' = NULL]_vars
    /\ [](logoutAt # NoLogout /\ ~LoginSinceLogout
            => /\ user = NULL
               /\ localStorage["access_token"] = NULL
               /\ localStorage["user"] = NULL)

SaveCalls == CallsOf("handleFormSubmit") \cup CallsOf("handleBusinessSubmit")

\* C26: while a create or update request started from the business form is
\* in flight, activating the submit control again starts no other create or
\* update request
C26_NoSecondSaveInFlight ==
    [][(\E i \in SaveCalls : requests[i].status = "pending") => SaveCalls' = SaveCalls]_vars

\* C27: SmsSender sends a bulk-SMS request only when at least one customer
\* is selected and the trimmed message is not empty; the customer_ids of the
\* request have no duplicates and are ids of loaded customers; a success
\* clears the selection and the message, a failure leaves both as they
\* were, and either way loading is false again
C27_BulkSmsGuardedAndSettled ==
    [][/\ CallsOf("handleSendSms")' # CallsOf("handleSendSms")
          => LET sent == requests'[Len(requests')].payload
                 ids == sent.customer_ids
             IN  /\ Len(views.sms.selectedCustomers) >= 1
                 /\ Trim(views.sms.message) # <<>>
                 /\ ids = views.sms.selectedCustomers
                 /\ sent.message = Trim(views.sms.message)
                 /\ \A j, k \in 1..Len(ids) : ids[j] = ids[k] => j = k
                 /\ \A j \in 1..Len(ids) :
                       \E k \in 1..Len(views.sms.customers) :
                          views.sms.customers[k].id = ids[j]
                 /\ views'.sms.loading
       /\ \A i \in 1..MaxRequests :
             SendBulkSmsResponse(i, "200")
             => /\ views'.sms.selectedCustomers = <<>>
                /\ views'.sms.message = <<>>
                /\ ~views'.sms.loading
       /\ \A i \in 1..MaxRequests, st \in SaveStatuses \ {"200"} :
             SendBulkSmsResponse(i, st)
             => /\ views'.sms.selectedCustomers = views.sms.selectedCustomers
                /\ views'.sms.message = views.sms.message
                /\ ~views'.sms.loading]_vars

C27_Witness ==
    /\ \E i \in CallsOf("handleSendSms") :
          /\ requests[i].status = "500"
          /\ Len(requests[i].payload.customer_ids) = 2
          /\ requests[i].payload.message = <<"o", "k">>
    /\ Len(views.sms.selectedCustomers) = 2
    /\ views.sms.message = <<"o", "k", " ">>
    /\ ~views.sms.loading

AllowedMove(old, new) ==
    \/ old = "new" /\ new \in {"reviewed", "resolved", "dismissed"}
    \/ old # "new" /\ new = "new"

\* C28: through the detail modal the status of a listed feedback item only
\* moves from 'new' to 'reviewed', 'resolved' or 'dismissed', or from another
\* status back to 'new'; the listed status changes only in the step in which
\* the PUT for that item succeeds, and a failed PUT leaves the list, the
\* selected item and the open modal as they were
C28_StatusMovesAfterPut ==
    [][/\ \A id \in FeedbackIds :
             /\ id \in DOMAIN views.feedback.items
             /\ id \in DOMAIN views'.feedback.items
             /\ views'.feedback.items[id].status # views.feedback.items[id].status
             => \E i \in 1..Len(requests) :
                   /\ Pending(i, "handleStatusUpdate")
                   /\ requests'[i].status = "200"
                   /\ requests[i].payload.id = id
                   /\ views'.feedback.items[id].status = requests[i].payload.status
                   /\ AllowedMove(views.feedback.items[id].status,
                                  views'.feedback.items[id].status)
       /\ \A i \in 1..MaxRequests, st \in SaveStatuses \ {"200"} :
             StatusUpdateResponse(i, st)
             => /\ views'.feedback.items = views.feedback.items
                /\ views'.feedback.selectedFeedback = views.feedback.selectedFeedback
                /\ views'.feedback.showDetailModal = views.feedback.showDetailModal
                /\ views'.feedback.notes = views.feedback.notes]_vars

C28_Witness ==
    /\ \E i \in CallsOf("handleStatusUpdate") :
          /\ requests[i].status = "200"
          /\ requests[i].payload.id = "f1"
          /\ requests[i].payload.status = "resolved"
    /\ \E i \in CallsOf("handleStatusUpdate") :
          /\ requests[i].status = "500"
          /\ requests[i].payload.id = "f1"
    /\ "f1" \in DOMAIN views.feedback.items
    /\ views.feedback.items["f1"].status = "resolved"

\* C29: AnalyticsDashboard eventually leaves its loading state: after mount,
\* loading becomes false, whether the business-list fetch succeeds with
\* businesses, succeeds with an empty list, or fails
C29_AnalyticsLoadingEnds ==
    views.analytics.mounted ~> ~views.analytics.loading

\* C30: for every business name generateSlug gives a slug with only
\* characters of [a-z0-9-] and no two hyphens in a row, so a generated slug
\* that is not empty passes the form's slug format check, and generateSlug
\* applied to its own output returns it unchanged
C30_GeneratedSlugWellFormed ==
    [][GenerateSlug
       => LET slug == form'.data.slug
          IN  /\ slug = SlugOf(form.data.name)
              /\ \A k \in 1..Len(slug) : slug[k] \in LowerLetters \cup Digits \cup {"-"}
              /\ \A k \in 1..Len(slug) - 1 : ~(slug[k] = "-" /\ slug[k + 1] = "-")
              /\ slug # <<>> => /\ SlugFormatOk(slug)
                                /\ ValidationMessage("legacy", form'.data, "slug") = NULL
              /\ SlugOf(slug) = slug]_vars

C30_Witness ==
    /\ form.open
    /\ form.data.name = <<" ", "-", " ">>
    /\ form.data.slug = <<"-">>

====
